---- MODULE Spec2Model ----
(***************************************************************************)
(* A model of the AI-daily pipeline: feed resolution by date               *)
(* (src/src/rss_fetcher.py and the plugin script fetch_news.py), the       *)
(* analysis call and its tolerant response parsing                         *)
(* (src/src/claude_analyzer.py) and the part of the renderer that consumes *)
(* the analysis result (src/src/html_generator.py).                        *)
(*                                                                         *)
(* Texts are TLA+ strings, handled character by character with Len, SubSeq *)
(* and \o.  Two characters of the source cannot be written in a TLA+       *)
(* string literal and are renamed one-to-one:                              *)
(*   - the grave accent U+0060 of a markdown fence is written ^ , so the   *)
(*     fence marker is "^^^" and the tagged marker "^^^json";              *)
(*   - the Chinese literals of the source are written as ASCII phrases     *)
(*     ("AI news acquired" for the notice of _parse_result, and so on),    *)
(*     one phrase per literal.                                             *)
(* ^ occurs in no other role in any text of the model.                     *)
(***************************************************************************)
EXTENDS Integers, Sequences, FiniteSets, TLC

(***************************************************************************)
(* Python str primitives.                                                  *)
(***************************************************************************)
Ch(s, i) == SubSeq(s, i, i)

StartsWith(s, p) == Len(s) >= Len(p) /\ SubSeq(s, 1, Len(p)) = p

EndsWith(s, p) == Len(s) >= Len(p) /\ SubSeq(s, Len(s) - Len(p) + 1, Len(s)) = p

\* s[i:i+len(p)] == p
At(s, i, p) == i + Len(p) - 1 <= Len(s) /\ SubSeq(s, i, i + Len(p) - 1) = p

\* s[n:]
DropFirst(s, n) == IF n >= Len(s) THEN "" ELSE SubSeq(s, n + 1, Len(s))

\* s[:-n]
DropLast(s, n) == IF n >= Len(s) THEN "" ELSE SubSeq(s, 1, Len(s) - n)

\* s[:n]
Prefix(s, n) == IF n >= Len(s) THEN s ELSE SubSeq(s, 1, n)

Whitespace == {" ", "\n", "\t", "\r"}

RECURSIVE LStrip(_)
LStrip(s) ==
  IF Len(s) > 0 /\ Ch(s, 1) \in Whitespace THEN LStrip(DropFirst(s, 1)) ELSE s

RECURSIVE RStrip(_)
RStrip(s) ==
  IF Len(s) > 0 /\ Ch(s, Len(s)) \in Whitespace THEN RStrip(DropLast(s, 1)) ELSE s

\* str.strip()
Strip(s) == RStrip(LStrip(s))

\* `p in s` for two strings
Contains(s, p) == \E i \in 1..(Len(s) + 1) : At(s, i, p)

Digits == {"0", "1", "2", "3", "4", "5", "6", "7", "8", "9"}

DigitVal(c) ==
  CASE c = "0" -> 0 [] c = "1" -> 1 [] c = "2" -> 2 [] c = "3" -> 3
    [] c = "4" -> 4 [] c = "5" -> 5 [] c = "6" -> 6 [] c = "7" -> 7
    [] c = "8" -> 8 [] c = "9" -> 9

DigitChr(n) ==
  CASE n = 0 -> "0" [] n = 1 -> "1" [] n = 2 -> "2" [] n = 3 -> "3"
    [] n = 4 -> "4" [] n = 5 -> "5" [] n = 6 -> "6" [] n = 7 -> "7"
    [] n = 8 -> "8" [] n = 9 -> "9"

\* str(n) for a non-negative integer
RECURSIVE NatStr(_)
NatStr(n) == IF n < 10 THEN DigitChr(n) ELSE NatStr(n \div 10) \o DigitChr(n % 10)

IntStr(n) == IF n < 0 THEN "-" \o NatStr(0 - n) ELSE NatStr(n)

(***************************************************************************)
(* Decoded JSON values (what json.loads returns), tagged by Python type:   *)
(* str, int, bool, None, list, dict.  A dict is a function on its keys.    *)
(***************************************************************************)
JStr(s) == [t |-> "str", v |-> s]
JNum(n) == [t |-> "num", v |-> n]
JBool(b) == [t |-> "bool", v |-> b]
JNull == [t |-> "null", v |-> "None"]
JArr(q) == [t |-> "arr", v |-> q]
JObj(f) == [t |-> "obj", v |-> f]

EmptyDict == [k \in {} |-> JNull]

\* d[k] = x on a dict
DictPut(d, k, x) == [j \in (DOMAIN d) \cup {k} |-> IF j = k THEN x ELSE d[j]]

\* Python truthiness: bool(v)
Truthy(x) ==
  CASE x.t = "str" -> Len(x.v) > 0
    [] x.t = "num" -> x.v # 0
    [] x.t = "bool" -> x.v
    [] x.t = "null" -> FALSE
    [] x.t = "arr" -> Len(x.v) > 0
    [] x.t = "obj" -> DOMAIN x.v # {}

(***************************************************************************)
(* json.loads, as a recursive-descent decoder over the text.  A step       *)
(* returns [ok, val, pos, msg]: the value and the position after it, or    *)
(* the JSONDecodeError message.  Modelled grammar: objects, arrays,        *)
(* strings with the escapes \" \\ \/ \n \r \t, integers, true, false,      *)
(* null.  Fractions, exponents, \uXXXX, \b, \f and NaN/Infinity are not    *)
(* in any text of the model.                                               *)
(***************************************************************************)
Got(x, p) == [ok |-> TRUE, val |-> x, pos |-> p, msg |-> ""]
Bad(m, p) == [ok |-> FALSE, val |-> JNull, pos |-> p, msg |-> m]

RECURSIVE SkipWs(_, _)
SkipWs(s, i) == IF i <= Len(s) /\ Ch(s, i) \in {" ", "\n", "\t", "\r"} THEN SkipWs(s, i + 1) ELSE i

\* the number of consecutive backslashes that end at position j
RECURSIVE BackslashRun(_, _)
BackslashRun(s, j) == IF j >= 1 /\ Ch(s, j) = "\\" THEN 1 + BackslashRun(s, j - 1) ELSE 0

Unescaped(e) ==
  CASE e = "n" -> "\n" [] e = "r" -> "\r" [] e = "t" -> "\t" [] OTHER -> e

\* what the scan of a string body looks for at position j
CharTest(kind, s, j) ==
  CASE kind = "close" -> Ch(s, j) = "\"" /\ BackslashRun(s, j - 1) % 2 = 0
    [] kind = "error" ->
         \/ Ch(s, j) \in {"\n", "\t", "\r"}
         \/ /\ Ch(s, j) = "\\"
            /\ j = Len(s) \/ Ch(s, j + 1) \notin {"\"", "\\", "/", "n", "r", "t"}
            /\ BackslashRun(s, j - 1) % 2 = 0

\* the first of two search results that found a position
FirstOf(l, r) == IF l > 0 THEN l ELSE r

\* the leftmost position of lo..hi that passes the test, 0 when none
RECURSIVE FirstPos(_, _, _, _)
FirstPos(kind, s, lo, hi) ==
  IF lo > hi THEN 0
  ELSE IF lo = hi THEN (IF CharTest(kind, s, lo) THEN lo ELSE 0)
  ELSE FirstOf(FirstPos(kind, s, lo, (lo + hi) \div 2),
               FirstPos(kind, s, (lo + hi) \div 2 + 1, hi))

\* the decoded character of position j of a string body
DecodedChar(s, j) ==
  IF Ch(s, j) = "\\" THEN
    (IF BackslashRun(s, j - 1) % 2 = 0 THEN Unescaped(Ch(s, j + 1)) ELSE "")
  ELSE IF BackslashRun(s, j - 1) % 2 = 1 THEN ""
  ELSE Ch(s, j)

\* the decoded characters of positions lo..hi of a string body
RECURSIVE Decoded(_, _, _)
Decoded(s, lo, hi) ==
  IF lo > hi THEN ""
  ELSE IF lo = hi THEN DecodedChar(s, lo)
  ELSE Decoded(s, lo, (lo + hi) \div 2) \o Decoded(s, (lo + hi) \div 2 + 1, hi)

\* the string body that opens at i, closes at `close` (0: never) and has its
\* first bad character at err (0: none)
StringChecked(s, i, close, err) ==
  IF err > 0 THEN
    (IF Ch(s, err) \in {"\n", "\t", "\r"} THEN Bad("Invalid control character at", err)
     ELSE IF err = Len(s) THEN Bad("Unterminated string starting at", i)
     ELSE Bad("Invalid \\escape", err))
  ELSE IF close = 0 THEN Bad("Unterminated string starting at", i)
  ELSE Got(JStr(Decoded(s, i, close - 1)), close + 1)

StringClosed(s, i, close) ==
  StringChecked(s, i, close, FirstPos("error", s, i, IF close = 0 THEN Len(s) ELSE close - 1))

\* py_scanstring: the string body from position i (after the opening
\* quote), strict mode
ScanString(s, i) == StringClosed(s, i, FirstPos("close", s, i, Len(s)))

\* the digits of [1-9]\d* from position i
RECURSIVE ScanDigits(_, _, _, _)
ScanDigits(s, i, sign, acc) ==
  IF i <= Len(s) /\ Ch(s, i) \in Digits
  THEN ScanDigits(s, i + 1, sign, acc * 10 + DigitVal(Ch(s, i)))
  ELSE Got(JNum(sign * acc), i)

\* the number whose digits start at j, after the sign read at i
NumberAt(s, i, sign, j) ==
  IF j > Len(s) \/ Ch(s, j) \notin Digits THEN Bad("Expecting value", i)
  ELSE IF Ch(s, j) = "0" THEN Got(JNum(0), j + 1)
  ELSE ScanDigits(s, j, sign, 0)

\* NUMBER_RE = (-?(?:0|[1-9]\d*)) at position i
ScanNumber(s, i) ==
  IF Ch(s, i) = "-" THEN NumberAt(s, i, 0 - 1, i + 1) ELSE NumberAt(s, i, 1, i)

RECURSIVE ScanOnce(_, _), ScanArrayItems(_, _, _), ScanObjectMembers(_, _, _)

\* what follows the opening bracket of an array or an object
OpenAt(s, c, j) ==
  IF c = "{" THEN
    (IF j <= Len(s) /\ Ch(s, j) = "}" THEN Got(JObj(EmptyDict), j + 1)
     ELSE ScanObjectMembers(s, j, EmptyDict))
  ELSE
    (IF j <= Len(s) /\ Ch(s, j) = "]" THEN Got(JArr(<<>>), j + 1)
     ELSE ScanArrayItems(s, j, <<>>))

\* scanner.scan_once
ScanOnce(s, i) ==
  IF i > Len(s) THEN Bad("Expecting value", i)
  ELSE IF Ch(s, i) = "\"" THEN ScanString(s, i + 1)
  ELSE IF Ch(s, i) \in {"{", "["} THEN OpenAt(s, Ch(s, i), SkipWs(s, i + 1))
  ELSE IF At(s, i, "null") THEN Got(JNull, i + 4)
  ELSE IF At(s, i, "true") THEN Got(JBool(TRUE), i + 4)
  ELSE IF At(s, i, "false") THEN Got(JBool(FALSE), i + 5)
  ELSE ScanNumber(s, i)

\* after an item: the closing bracket, or a comma and the next item
ArrayNext(s, items, j) ==
  IF j <= Len(s) /\ Ch(s, j) = "]" THEN Got(JArr(items), j + 1)
  ELSE IF j <= Len(s) /\ Ch(s, j) = "," THEN ScanArrayItems(s, SkipWs(s, j + 1), items)
  ELSE Bad("Expecting ',' delimiter", j)

ArrayItem(s, acc, r) ==
  IF ~r.ok THEN r ELSE ArrayNext(s, Append(acc, r.val), SkipWs(s, r.pos))

\* JSONArray: the items from position i (at the first character of an item)
ScanArrayItems(s, i, acc) == ArrayItem(s, acc, ScanOnce(s, i))

\* after a member: the closing brace, or a comma and the next member
MemberNext(s, members, j) ==
  IF j <= Len(s) /\ Ch(s, j) = "}" THEN Got(JObj(members), j + 1)
  ELSE IF j <= Len(s) /\ Ch(s, j) = "," THEN ScanObjectMembers(s, SkipWs(s, j + 1), members)
  ELSE Bad("Expecting ',' delimiter", j)

\* a repeated key keeps its last value
MemberValue(s, acc, key, r) ==
  IF ~r.ok THEN r ELSE MemberNext(s, DictPut(acc, key, r.val), SkipWs(s, r.pos))

MemberColon(s, acc, key, c) ==
  IF c > Len(s) \/ Ch(s, c) # ":" THEN Bad("Expecting ':' delimiter", c)
  ELSE MemberValue(s, acc, key, ScanOnce(s, SkipWs(s, c + 1)))

MemberKey(s, acc, k) ==
  IF ~k.ok THEN k ELSE MemberColon(s, acc, k.val.v, SkipWs(s, k.pos))

\* JSONObject: the members from position i (at the quote opening a key)
ScanObjectMembers(s, i, acc) ==
  IF i > Len(s) \/ Ch(s, i) # "\""
  THEN Bad("Expecting property name enclosed in double quotes", i)
  ELSE MemberKey(s, acc, ScanString(s, i + 1))

\* the end of the document after its value
LoadsValue(s, r) ==
  IF ~r.ok THEN r
  ELSE IF SkipWs(s, r.pos) <= Len(s) THEN Bad("Extra data", SkipWs(s, r.pos))
  ELSE r

\* json.loads(s): the whole text is one value between optional whitespace
Loads(s) == LoadsValue(s, ScanOnce(s, SkipWs(s, 1)))

(***************************************************************************)
(* json.dumps with its default separators: the wire form of a value.  The  *)
(* members of an object are written in KeyOrder (a dict keeps its          *)
(* insertion order; the six result keys come first, in the order of the    *)
(* requested schema).                                                      *)
(***************************************************************************)
EscapeChar(c) ==
  CASE c = "\"" -> "\\\""
    [] c = "\\" -> "\\\\"
    [] c = "\n" -> "\\n"
    [] c = "\r" -> "\\r"
    [] c = "\t" -> "\\t"
    [] OTHER -> c

\* the escaped characters of positions lo..hi
RECURSIVE EscapeRange(_, _, _)
EscapeRange(s, lo, hi) ==
  IF lo > hi THEN ""
  ELSE IF lo = hi THEN EscapeChar(Ch(s, lo))
  ELSE LET mid == (lo + hi) \div 2 IN EscapeRange(s, lo, mid) \o EscapeRange(s, mid + 1, hi)

EscapeJson(s) == EscapeRange(s, 1, Len(s))

RequiredKeys == <<"status", "date", "theme", "summary", "keywords", "categories">>

RequiredKeySet == {RequiredKeys[i] : i \in 1..Len(RequiredKeys)}

RECURSIVE SetToSeq(_)
SetToSeq(S) == IF S = {} THEN <<>> ELSE LET x == CHOOSE y \in S : TRUE IN <<x>> \o SetToSeq(S \ {x})

KeyOrder(d) ==
  SelectSeq(RequiredKeys, LAMBDA k : k \in DOMAIN d) \o SetToSeq((DOMAIN d) \ RequiredKeySet)

RECURSIVE Dumps(_), DumpsItems(_, _), DumpsMembers(_, _, _)

Dumps(x) ==
  CASE x.t = "str" -> "\"" \o EscapeJson(x.v) \o "\""
    [] x.t = "num" -> IntStr(x.v)
    [] x.t = "bool" -> IF x.v THEN "true" ELSE "false"
    [] x.t = "null" -> "null"
    [] x.t = "arr" -> "[" \o DumpsItems(x.v, 1) \o "]"
    [] x.t = "obj" -> "{" \o DumpsMembers(x.v, KeyOrder(x.v), 1) \o "}"

DumpsItems(q, i) ==
  IF i > Len(q) THEN ""
  ELSE Dumps(q[i]) \o (IF i < Len(q) THEN ", " ELSE "") \o DumpsItems(q, i + 1)

DumpsMembers(d, ks, i) ==
  IF i > Len(ks) THEN ""
  ELSE "\"" \o EscapeJson(ks[i]) \o "\": " \o Dumps(d[ks[i]])
       \o (IF i < Len(ks) THEN ", " ELSE "") \o DumpsMembers(d, ks, i + 1)

(***************************************************************************)
(* Python str(x) and repr(x) of a decoded value.  The repr of a str is     *)
(* written in single quotes (no text reaching repr holds a quote, a        *)
(* backslash or a control character).                                      *)
(***************************************************************************)
RECURSIVE PyRepr(_), PyReprItems(_, _), PyReprMembers(_, _, _)

PyRepr(x) ==
  CASE x.t = "str" -> "'" \o x.v \o "'"
    [] x.t = "num" -> IntStr(x.v)
    [] x.t = "bool" -> IF x.v THEN "True" ELSE "False"
    [] x.t = "null" -> "None"
    [] x.t = "arr" -> "[" \o PyReprItems(x.v, 1) \o "]"
    [] x.t = "obj" -> "{" \o PyReprMembers(x.v, KeyOrder(x.v), 1) \o "}"

PyReprItems(q, i) ==
  IF i > Len(q) THEN ""
  ELSE PyRepr(q[i]) \o (IF i < Len(q) THEN ", " ELSE "") \o PyReprItems(q, i + 1)

PyReprMembers(d, ks, i) ==
  IF i > Len(ks) THEN ""
  ELSE "'" \o ks[i] \o "': " \o PyRepr(d[ks[i]])
       \o (IF i < Len(ks) THEN ", " ELSE "") \o PyReprMembers(d, ks, i + 1)

PyStr(x) == IF x.t = "str" THEN x.v ELSE PyRepr(x)

(***************************************************************************)
(* Python operators on a decoded value that can raise.  The result of a    *)
(* subscript is [exc, val]: exc = "" when it returned val.                 *)
(***************************************************************************)
Ret(x) == [exc |-> "", val |-> x]
Exc(e) == [exc |-> e, val |-> JNull]

\* whether `k in x` raises TypeError (x is not a container)
InRaises(x) == x.t \in {"num", "bool", "null"}

\* `k in x` for a str k and a container x
PyIn(k, x) ==
  CASE x.t = "obj" -> k \in DOMAIN x.v
    [] x.t = "arr" -> \E i \in 1..Len(x.v) : x.v[i] = JStr(k)
    [] x.t = "str" -> Contains(x.v, k)
    [] OTHER -> FALSE

\* x[k] for a str k
GetKey(x, k) ==
  IF x.t = "obj" THEN (IF k \in DOMAIN x.v THEN Ret(x.v[k]) ELSE Exc("KeyError"))
  ELSE Exc("TypeError")

\* x[0]
GetFirst(x) ==
  CASE x.t = "obj" -> Exc("KeyError")
    [] x.t = "arr" -> IF Len(x.v) > 0 THEN Ret(x.v[1]) ELSE Exc("IndexError")
    [] x.t = "str" -> IF Len(x.v) > 0 THEN Ret(JStr(Ch(x.v, 1))) ELSE Exc("IndexError")
    [] OTHER -> Exc("TypeError")

\* whether len(x) is defined
HasLen(x) == x.t \in {"str", "arr", "obj"}

(***************************************************************************)
(* Configuration and literals.                                             *)
(***************************************************************************)
\* the eight theme keys
ThemeNames == {"blue", "indigo", "purple", "green", "orange", "pink", "teal", "gray"}

DEFAULT_THEME == "blue"

FENCE == "^^^"

FENCE_JSON == "^^^json"

NOTICE == "AI news acquired"

(***************************************************************************)
(* ClaudeAnalyzer._parse_result.  An outcome is [raised, exc, value]: the  *)
(* returned dict, or the exception that leaves the method.                 *)
(***************************************************************************)
Returned(x) == [raised |-> FALSE, exc |-> "", value |-> x]
Raised(e) == [raised |-> TRUE, exc |-> e, value |-> JNull]

StripFences(result_text) ==
  LET a == Strip(result_text)
      b == IF StartsWith(a, FENCE_JSON) THEN DropFirst(a, 7) ELSE a
      c == IF StartsWith(b, FENCE) THEN DropFirst(b, 3) ELSE b
      d == IF EndsWith(c, FENCE) THEN DropLast(c, 3) ELSE c
  IN Strip(d)

DefaultOf(k, target_date) ==
  CASE k = "status" -> JStr("success")
    [] k = "date" -> JStr(target_date)
    [] k = "theme" -> JStr(DEFAULT_THEME)
    [] k = "summary" -> JArr(<<>>)
    [] k = "keywords" -> JArr(<<>>)
    [] k = "categories" -> JArr(<<>>)

\* a repair that assigns the six defaults without the `not in` tests
OverwriteDefaults(d, target_date) ==
  [k \in (DOMAIN d) \cup RequiredKeySet |->
     IF k \in RequiredKeySet THEN DefaultOf(k, target_date) ELSE d[k]]

\* the six `if k not in result: result[k] = default` statements on a dict
FillDefaults(d, target_date) ==
  [k \in (DOMAIN d) \cup RequiredKeySet |->
     IF k \in DOMAIN d THEN d[k] ELSE DefaultOf(k, target_date)]

\* a decode-failure branch that reports the failure in the status and
\* drops the message
DecodeFailureAsError(target_date, msg) ==
  JObj([status |-> JStr("error"),
        date |-> JStr(target_date),
        theme |-> JStr(DEFAULT_THEME),
        summary |-> JArr(<<JStr(NOTICE)>>),
        keywords |-> JArr(<<JStr("AI")>>),
        categories |-> JArr(<<>>)])

\* the dict returned from the except json.JSONDecodeError branch
DecodeFailureResult(target_date, msg) ==
  JObj([status |-> JStr("success"),
        date |-> JStr(target_date),
        theme |-> JStr(DEFAULT_THEME),
        summary |-> JArr(<<JStr(NOTICE)>>),
        keywords |-> JArr(<<JStr("AI")>>),
        categories |-> JArr(<<>>),
        parse_error |-> JStr(msg)])

\* the try body after json.loads returned x
ValidateResult(x, target_date) ==
  IF x.t = "obj" THEN
    LET d == FillDefaults(x.v, target_date) IN
      IF HasLen(d["summary"]) /\ HasLen(d["keywords"]) /\ HasLen(d["categories"])
      THEN Returned(JObj(d))
      ELSE Raised("TypeError")
  ELSE IF InRaises(x) THEN Raised("TypeError")
  ELSE IF \A k \in RequiredKeySet : PyIn(k, x) THEN Raised("AttributeError")
  ELSE Raised("TypeError")

_parse_result(result_text, target_date) ==
  LET r == Loads(StripFences(result_text)) IN
    IF r.ok THEN ValidateResult(r.val, target_date)
    ELSE Returned(DecodeFailureResult(target_date, r.msg))

(***************************************************************************)
(* ClaudeAnalyzer.analyze: the pieces around the request.  A content       *)
(* record is [none, title, link, guid, description, content, pubDate];     *)
(* none = TRUE stands for None.                                            *)
(***************************************************************************)
NoContent ==
  [none |-> TRUE, title |-> "", link |-> "", guid |-> "", description |-> "",
   content |-> "", pubDate |-> ""]

\* the record as a decoded value (the raw_content member)
ContentValue(content) ==
  JObj([title |-> JStr(content.title), link |-> JStr(content.link),
        guid |-> JStr(content.guid), description |-> JStr(content.description),
        content |-> JStr(content.content), pubDate |-> JStr(content.pubDate)])

\* `not content or not content.get("content")`
ContentIsEmpty(content) == content.none \/ Len(content.content) = 0

\* an empty result that reports success
EmptyResultAsSuccess(target_date, reason) ==
  JObj([status |-> JStr("success"),
        date |-> JStr(target_date),
        theme |-> JStr(DEFAULT_THEME),
        summary |-> JArr(<<>>),
        keywords |-> JArr(<<>>),
        categories |-> JArr(<<>>),
        reason |-> JStr(reason)])

_empty_result(target_date, reason) ==
  JObj([status |-> JStr("empty"),
        date |-> JStr(target_date),
        theme |-> JStr(DEFAULT_THEME),
        summary |-> JArr(<<>>),
        keywords |-> JArr(<<>>),
        categories |-> JArr(<<>>),
        reason |-> JStr(reason)])

\* fallback categories that copy the title and the description whole
UncutCategories(content) ==
  JArr(<<JObj([key |-> JStr("model"),
               name |-> JStr("model release"),
               icon |-> JStr("robot"),
               items |-> JArr(<<JObj([title |-> JStr(content.title),
                                      summary |-> JStr(content.description),
                                      url |-> JStr(content.link),
                                      tags |-> JArr(<<JStr("AI")>>)])>>)])>>)

\* ClaudeAnalyzer._fallback_categories
_fallback_categories(content) ==
  JArr(<<JObj([key |-> JStr("model"),
               name |-> JStr("model release"),
               icon |-> JStr("robot"),
               items |-> JArr(<<JObj([title |-> JStr(Prefix(content.title, 100)),
                                      summary |-> JStr(Prefix(content.description, 200)),
                                      url |-> JStr(content.link),
                                      tags |-> JArr(<<JStr("AI")>>)])>>)])>>)

PROMPT_BODY_LIMIT == 15000

\* the prompt up to the content body: the role line, the target date, the
\* title and the link (the Chinese template text is written in English)
PromptHead(content, target_date) ==
  "You are an AI news analyst.\n\n[target date]\n" \o target_date
  \o "\n\n[raw content]\ntitle: " \o content.title
  \o "\nlink: " \o content.link \o "\n\nfull content:\n"

\* the prompt after the content body: the task description and the JSON
\* example, the same text for every content
PromptTail == "\n\n---\n\n[task]\noutput the JSON only.\n"

\* a prompt that embeds the content body whole
BuildPromptUncut(content, target_date) ==
  PromptHead(content, target_date) \o content.content \o PromptTail

\* ClaudeAnalyzer._build_prompt
_build_prompt(content, target_date) ==
  PromptHead(content, target_date) \o Prefix(content.content, PROMPT_BODY_LIMIT) \o PromptTail

\* the dict returned from the `except Exception` branch of analyze
FallbackResult(content, target_date) ==
  JObj([status |-> JStr("success"),
        date |-> JStr(target_date),
        theme |-> JStr(DEFAULT_THEME),
        summary |-> JArr(<<JStr("AI analysis hit a technical problem; raw content summary follows"),
                           JStr("title: " \o Prefix(content.title, 100) \o "...")>>),
        keywords |-> JArr(<<JStr("AI"), JStr("news")>>),
        categories |-> _fallback_categories(content),
        raw_content |-> ContentValue(content)])

\* response_data["choices"][0]["message"]["content"]
OpenAIPath(rd) ==
  LET a == GetKey(rd, "choices") IN
    IF a.exc # "" THEN a
    ELSE LET b == GetFirst(a.val) IN
      IF b.exc # "" THEN b
      ELSE LET c == GetKey(b.val, "message") IN
        IF c.exc # "" THEN c ELSE GetKey(c.val, "content")

\* response_data["content"][0]["text"]
ClaudePath(rd) ==
  LET a == GetKey(rd, "content") IN
    IF a.exc # "" THEN a
    ELSE LET b == GetFirst(a.val) IN
      IF b.exc # "" THEN b ELSE GetKey(b.val, "text")

\* a try block that swallows KeyError and IndexError and keeps the old value
Attempt(path, old) ==
  IF path.exc = "" THEN Ret(path.val)
  ELSE IF path.exc \in {"KeyError", "IndexError"} THEN Ret(old)
  ELSE Exc(path.exc)

\* d.get(k) on a dict
DictGet(d, k) == IF k \in DOMAIN d THEN d[k] ELSE JNull

\* a or b
PyOr(a, b) == IF Truthy(a) THEN a ELSE b

\* str(result_text) of whatever the extraction found, str(response_data)
\* when it found nothing
AsText(rd, f3) == Ret(JStr(PyStr(IF ~Truthy(f3) THEN JStr(PyStr(rd)) ELSE f3)))

\* the generic keys: response_data.get('result') or .get('text') or .get('data')
FromKeys(rd, f2) ==
  IF f2.exc # "" THEN f2
  ELSE IF ~Truthy(f2.val) /\ rd.t # "obj" THEN Exc("AttributeError")
  ELSE AsText(rd, IF ~Truthy(f2.val)
                  THEN PyOr(PyOr(DictGet(rd.v, "result"), DictGet(rd.v, "text")),
                            DictGet(rd.v, "data"))
                  ELSE f2.val)

\* the Claude format, tried when the OpenAI format gave nothing
FromClaude(rd, f1) ==
  IF f1.exc # "" THEN f1
  ELSE FromKeys(rd, IF ~Truthy(f1.val) /\ PyIn("content", rd)
                    THEN Attempt(ClaudePath(rd), f1.val) ELSE f1)

\* the statements from `result_text = None` to `result_text = str(result_text)`
ExtractText(rd) ==
  IF InRaises(rd) THEN Exc("TypeError")
  ELSE FromClaude(rd, IF PyIn("choices", rd) THEN Attempt(OpenAIPath(rd), JNull)
                      ELSE Ret(JNull))

\* the try body stopped before the call of _parse_result
NotParsed(o) == [called |-> FALSE, text |-> "", outcome |-> o]

\* the try body called _parse_result(text, target_date)
Parsed(text, target_date) ==
  [called |-> TRUE, text |-> text, outcome |-> _parse_result(text, target_date)]

TryText(t, target_date) ==
  IF t.exc # "" THEN NotParsed(Raised(t.exc)) ELSE Parsed(t.val.v, target_date)

\* response.json() gave rd; raise_for_status, the extraction and the parse
TryBody(status_code, rd, target_date) ==
  IF ~rd.ok THEN NotParsed(Raised("Exception"))
  ELSE IF status_code >= 400 THEN NotParsed(Raised("HTTPError"))
  ELSE TryText(ExtractText(rd.val), target_date)

\* the try body of analyze once requests.post returned (status_code, body)
HandleResponse(status_code, body, target_date) ==
  TryBody(status_code, Loads(body), target_date)

\* analyze with an except branch that hands back what the try body had
PassThrough(outcome, content, target_date) == outcome.value

\* what analyze returns for an outcome of its try body
AnalyzeReturn(outcome, content, target_date) ==
  IF outcome.raised THEN FallbackResult(content, target_date) ELSE outcome.value

(***************************************************************************)
(* Dates.  A time tuple is <<year, month, day, hour, minute, second>>.     *)
(***************************************************************************)
AllDigits(s) == \A i \in 1..Len(s) : Ch(s, i) \in Digits

RECURSIVE StrNat(_)
StrNat(s) == IF Len(s) = 0 THEN 0 ELSE StrNat(DropLast(s, 1)) * 10 + DigitVal(Ch(s, Len(s)))

IsLeap(y) == (y % 4 = 0 /\ y % 100 # 0) \/ y % 400 = 0

DaysInMonth(y, m) ==
  IF m = 2 THEN (IF IsLeap(y) THEN 29 ELSE 28)
  ELSE IF m \in {4, 6, 9, 11} THEN 30 ELSE 31

\* the %m directive: 1[0-2] | 0[1-9] | [1-9]
IsMonthToken(s) ==
  \/ Len(s) = 2 /\ Ch(s, 1) = "1" /\ Ch(s, 2) \in {"0", "1", "2"}
  \/ Len(s) = 2 /\ Ch(s, 1) = "0" /\ Ch(s, 2) \in Digits \ {"0"}
  \/ Len(s) = 1 /\ Ch(s, 1) \in Digits \ {"0"}

\* the %d directive: 3[01] | [12]\d | 0[1-9] | [1-9] | " "[1-9]
IsDayToken(s) ==
  \/ Len(s) = 2 /\ Ch(s, 1) = "3" /\ Ch(s, 2) \in {"0", "1"}
  \/ Len(s) = 2 /\ Ch(s, 1) \in {"1", "2"} /\ Ch(s, 2) \in Digits
  \/ Len(s) = 2 /\ Ch(s, 1) \in {"0", " "} /\ Ch(s, 2) \in Digits \ {"0"}
  \/ Len(s) = 1 /\ Ch(s, 1) \in Digits \ {"0"}

\* datetime.strptime(s, "%Y-%m-%d"): [ok, y, m, d]; ok = FALSE is ValueError
strptime(s) ==
  LET bad == [ok |-> FALSE, y |-> 0, m |-> 0, d |-> 0]
      dash == IF At(s, 7, "-") THEN 7 ELSE IF At(s, 8, "-") THEN 8 ELSE 0
  IN IF Len(s) < 8 \/ ~AllDigits(SubSeq(s, 1, 4)) \/ ~At(s, 5, "-") \/ dash = 0 THEN bad
     ELSE LET ms == SubSeq(s, 6, dash - 1)
              ds == SubSeq(s, dash + 1, Len(s))
          IN IF ~IsMonthToken(ms) \/ ~IsDayToken(ds) THEN bad
             ELSE LET y == StrNat(SubSeq(s, 1, 4))
                      m == StrNat(ms)
                      d == StrNat(LStrip(ds))
                  IN IF y < 1 \/ d > DaysInMonth(y, m) THEN bad
                     ELSE [ok |-> TRUE, y |-> y, m |-> m, d |-> d]

\* s padded on the left with zeros to width w
RECURSIVE LeftPad(_, _)
LeftPad(s, w) == IF Len(s) >= w THEN s ELSE LeftPad("0" \o s, w)

\* datetime(*tt[:6]).strftime("%Y-%m-%d")
strftime(tt) == LeftPad(NatStr(tt[1]), 4) \o "-" \o LeftPad(NatStr(tt[2]), 2) \o "-" \o LeftPad(NatStr(tt[3]), 2)

\* a comparison that takes the time of day along: the target is midnight
SameInstant(tt, target_dt) == tt = <<target_dt.y, target_dt.m, target_dt.d, 0, 0, 0>>

\* RSSFetcher._is_same_day on a time tuple and a parsed target
_is_same_day(tt, target_dt) == <<tt[1], tt[2], tt[3]>> = <<target_dt.y, target_dt.m, target_dt.d>>

(***************************************************************************)
(* _extract_date_from_link: re.search of /issues/(\d{2})-(\d{2})-(\d{2})-  *)
(* and then of /issues/(\d{4})-(\d{2})-(\d{2})- ; NoDate stands for None.  *)
(***************************************************************************)
NoDate == ""

\* the pattern with a year of yw digits matches at position i
IssueAt(link, i, yw) ==
  /\ At(link, i, "/issues/")
  /\ i + 7 + yw + 7 <= Len(link)
  /\ AllDigits(SubSeq(link, i + 8, i + 7 + yw))
  /\ Ch(link, i + 8 + yw) = "-"
  /\ AllDigits(SubSeq(link, i + 9 + yw, i + 10 + yw))
  /\ Ch(link, i + 11 + yw) = "-"
  /\ AllDigits(SubSeq(link, i + 12 + yw, i + 13 + yw))
  /\ Ch(link, i + 14 + yw) = "-"

\* the least element of a non-empty set of integers
Least(S) == CHOOSE i \in S : \A j \in S : i <= j

\* the leftmost position where the pattern matches, 0 when none
SearchIssue(link, yw) ==
  LET hits == {i \in 1..Len(link) : IssueAt(link, i, yw)} IN
    IF hits = {} THEN 0 ELSE Least(hits)

\* the matched text as it stands, without the century
IssueDateUnexpanded(link, i, yw) ==
  SubSeq(link, i + 8, i + 7 + yw) \o "-"
  \o SubSeq(link, i + 9 + yw, i + 10 + yw) \o "-" \o SubSeq(link, i + 12 + yw, i + 13 + yw)

IssueDate(link, i, yw) ==
  (IF yw = 2 THEN "20" ELSE "") \o SubSeq(link, i + 8, i + 7 + yw) \o "-"
  \o SubSeq(link, i + 9 + yw, i + 10 + yw) \o "-" \o SubSeq(link, i + 12 + yw, i + 13 + yw)

_extract_date_from_link(link) ==
  LET p2 == SearchIssue(link, 2)
      p4 == SearchIssue(link, 4)
  IN IF p2 > 0 THEN IssueDate(link, p2, 2)
     ELSE IF p4 > 0 THEN IssueDate(link, p4, 4)
     ELSE NoDate

(***************************************************************************)
(* Feed entries.  An entry is a bag of optional fields: present holds the  *)
(* names of the attributes the entry has.  content is a list of blocks     *)
(* [has_value, value]; published_parsed is a time tuple, or <<>> for None. *)
(***************************************************************************)
BlankEntry ==
  [present |-> {}, title |-> "", link |-> "", id |-> "", guid |-> "",
   description |-> "", summary |-> "", content |-> <<>>, published |-> "",
   updated |-> "", published_parsed |-> <<>>]

\* hasattr(entry, a)
HasAttr(entry, a) == a \in entry.present

\* `hasattr(entry, 'published_parsed') and entry.published_parsed`
HasPublished(entry) == HasAttr(entry, "published_parsed") /\ Len(entry.published_parsed) > 0

\* s.replace(old, new): the leftmost occurrence, then the rest of the text
RECURSIVE Replace(_, _, _)
Replace(s, old, new) ==
  LET hits == {i \in 1..Len(s) : At(s, i, old)} IN
    IF hits = {} THEN s
    ELSE LET i == Least(hits) IN
      SubSeq(s, 1, i - 1) \o new \o Replace(DropFirst(s, i - 1 + Len(old)), old, new)

\* no replace at all
EntitiesKept(s) == s

\* the three replacements with &amp; first
DecodeAmpFirst(s) == Replace(Replace(Replace(s, "&amp;", "&"), "&lt;", "<"), "&gt;", ">")

\* the chained replace of &lt; &gt; &amp;
DecodeEntities(s) == Replace(Replace(Replace(s, "&lt;", "<"), "&gt;", ">"), "&amp;", "&")

\* an extraction whose guid stays empty when the entry has no id and no guid
GuidLeftEmpty(entry) ==
  [none |-> FALSE,
   title |-> IF HasAttr(entry, "title") THEN entry.title ELSE "",
   link |-> IF HasAttr(entry, "link") THEN entry.link ELSE "",
   guid |-> IF HasAttr(entry, "id") THEN entry.id
            ELSE IF HasAttr(entry, "guid") THEN entry.guid ELSE "",
   description |-> IF HasAttr(entry, "description") THEN entry.description ELSE "",
   content |-> DecodeEntities(
                 IF HasAttr(entry, "content") /\ Len(entry.content) > 0
                 THEN (IF entry.content[1].has_value THEN entry.content[1].value ELSE "")
                 ELSE IF HasAttr(entry, "summary") THEN entry.summary
                 ELSE IF HasAttr(entry, "description") THEN entry.description ELSE ""),
   pubDate |-> IF HasAttr(entry, "published") THEN entry.published
               ELSE IF HasAttr(entry, "updated") THEN entry.updated ELSE ""]

\* RSSFetcher._extract_entry_content
_extract_entry_content(entry) ==
  LET title == IF HasAttr(entry, "title") THEN entry.title ELSE ""
      link == IF HasAttr(entry, "link") THEN entry.link ELSE ""
      guid == IF HasAttr(entry, "id") THEN entry.id
              ELSE IF HasAttr(entry, "guid") THEN entry.guid ELSE link
      description == IF HasAttr(entry, "description") THEN entry.description ELSE ""
      body == IF HasAttr(entry, "content") /\ Len(entry.content) > 0
              THEN (IF entry.content[1].has_value THEN entry.content[1].value ELSE "")
              ELSE IF HasAttr(entry, "summary") THEN entry.summary
              ELSE description
      pubDate == IF HasAttr(entry, "published") THEN entry.published
                 ELSE IF HasAttr(entry, "updated") THEN entry.updated ELSE ""
  IN [none |-> FALSE, title |-> title, link |-> link, guid |-> guid,
      description |-> description, content |-> DecodeEntities(body), pubDate |-> pubDate]

\* fetch_news.extract_entry_content: a record with four keys
extract_entry_content(entry) ==
  LET title == IF HasAttr(entry, "title") THEN entry.title ELSE ""
      link == IF HasAttr(entry, "link") THEN entry.link ELSE ""
      pubDate == IF HasAttr(entry, "published") THEN entry.published ELSE ""
      body == IF HasAttr(entry, "content") /\ Len(entry.content) > 0
              THEN (IF entry.content[1].has_value THEN entry.content[1].value ELSE "")
              ELSE IF HasAttr(entry, "summary") THEN entry.summary
              ELSE title
  IN [title |-> title, link |-> link, pubDate |-> pubDate, content |-> DecodeEntities(body)]

\* the link test shared by both loops
LinkMatches(entry, target_date) ==
  /\ HasAttr(entry, "link")
  /\ _extract_date_from_link(entry.link) # NoDate
  /\ _extract_date_from_link(entry.link) = target_date

\* one iteration of the loop of RSSFetcher.get_content_by_date returns
RssEntryMatches(entry, target_date, target_dt) ==
  \/ HasPublished(entry) /\ _is_same_day(entry.published_parsed, target_dt)
  \/ LinkMatches(entry, target_date)

\* one iteration of the loop of fetch_news.get_content_by_date returns
CliEntryMatches(entry, target_date) ==
  \/ LinkMatches(entry, target_date)
  \/ HasPublished(entry) /\ strftime(entry.published_parsed) = target_date

\* a loop that keeps going and returns the last entry that satisfies the test
LastRssMatch(feed, i, target_date, target_dt) ==
  LET hits == {k \in i..Len(feed) : RssEntryMatches(feed[k], target_date, target_dt)} IN
    IF hits = {} THEN 0 ELSE CHOOSE k \in hits : \A j \in hits : j <= k

\* the index of the first entry of the feed from i on that satisfies the
\* test, 0 when the loop falls through
RECURSIVE FirstRssMatch(_, _, _, _)
FirstRssMatch(feed, i, target_date, target_dt) ==
  IF i > Len(feed) THEN 0
  ELSE IF RssEntryMatches(feed[i], target_date, target_dt) THEN i
  ELSE FirstRssMatch(feed, i + 1, target_date, target_dt)

RECURSIVE FirstCliMatch(_, _, _)
FirstCliMatch(feed, i, target_date) ==
  IF i > Len(feed) THEN 0
  ELSE IF CliEntryMatches(feed[i], target_date) THEN i
  ELSE FirstCliMatch(feed, i + 1, target_date)

\* a lookup that raises when the loop falls through
RaiseWhenMissing(target_date, feed) ==
  LET target_dt == strptime(target_date) IN
    IF ~target_dt.ok \/ FirstRssMatch(feed, 1, target_date, target_dt) = 0
    THEN [raised |-> TRUE, found |-> 0, content |-> NoContent]
    ELSE [raised |-> FALSE, found |-> FirstRssMatch(feed, 1, target_date, target_dt),
          content |-> _extract_entry_content(feed[FirstRssMatch(feed, 1, target_date, target_dt)])]

\* RSSFetcher.get_content_by_date: [raised, found, content]; raised is the
\* ValueError of a malformed target, found the index of the entry returned
get_content_by_date(target_date, feed) ==
  LET target_dt == strptime(target_date) IN
    IF ~target_dt.ok THEN [raised |-> TRUE, found |-> 0, content |-> NoContent]
    ELSE LET i == FirstRssMatch(feed, 1, target_date, target_dt) IN
      [raised |-> FALSE, found |-> i,
       content |-> IF i = 0 THEN NoContent ELSE _extract_entry_content(feed[i])]

\* fetch_news.get_content_by_date: the index of the entry returned, 0 for None
fetch_news_get_content_by_date(feed, target_date) == FirstCliMatch(feed, 1, target_date)

(***************************************************************************)
(* fetch_news.get_date_range and the not-found report of fetch_news.main.  *)
(* Date strings hold digits and "-" only, so min and max compare them by   *)
(* character code.                                                         *)
(***************************************************************************)
Ord(c) == IF c = "-" THEN 45 ELSE 48 + DigitVal(c)

RECURSIVE StrLess(_, _)
StrLess(a, b) ==
  IF Len(b) = 0 THEN FALSE
  ELSE IF Len(a) = 0 THEN TRUE
  ELSE IF Ch(a, 1) = Ch(b, 1) THEN StrLess(DropFirst(a, 1), DropFirst(b, 1))
  ELSE Ord(Ch(a, 1)) < Ord(Ch(b, 1))

RECURSIVE MinStr(_)
MinStr(q) ==
  IF Len(q) = 1 THEN q[1]
  ELSE LET m == MinStr(Tail(q)) IN IF StrLess(m, q[1]) THEN m ELSE q[1]

RECURSIVE MaxStr(_)
MaxStr(q) ==
  IF Len(q) = 1 THEN q[1]
  ELSE LET m == MaxStr(Tail(q)) IN IF StrLess(q[1], m) THEN m ELSE q[1]

\* the dates list built by the loop of fetch_news.get_date_range
RECURSIVE CliDates(_, _)
CliDates(feed, i) ==
  IF i > Len(feed) THEN <<>>
  ELSE LET e == feed[i]
           d == IF HasAttr(e, "link")
                THEN (IF _extract_date_from_link(e.link) # NoDate
                      THEN <<_extract_date_from_link(e.link)>> ELSE <<>>)
                ELSE IF HasPublished(e) THEN <<strftime(e.published_parsed)>>
                ELSE <<>>
       IN d \o CliDates(feed, i + 1)

\* fetch_news.get_date_range: [min, max], NoDate for None
fetch_news_get_date_range(feed) ==
  LET dates == CliDates(feed, 1) IN
    IF Len(dates) = 0 THEN [min |-> NoDate, max |-> NoDate]
    ELSE [min |-> MinStr(dates), max |-> MaxStr(dates)]

\* the dates list built by the loop of RSSFetcher.get_date_range
RECURSIVE RssDates(_, _)
RssDates(feed, i) ==
  IF i > Len(feed) THEN <<>>
  ELSE (IF HasAttr(feed[i], "link") /\ _extract_date_from_link(feed[i].link) # NoDate
        THEN <<_extract_date_from_link(feed[i].link)>> ELSE <<>>)
       \o RssDates(feed, i + 1)

\* RSSFetcher.get_date_range: [min, max], NoDate for None
get_date_range(feed) ==
  IF Len(RssDates(feed, 1)) = 0 THEN [min |-> NoDate, max |-> NoDate]
  ELSE [min |-> MinStr(RssDates(feed, 1)), max |-> MaxStr(RssDates(feed, 1))]

NoOutput ==
  [kind |-> "none", content |-> extract_entry_content(BlankEntry), target_date |-> "",
   range |-> [min |-> NoDate, max |-> NoDate]]

\* what fetch_news.main prints after get_content_by_date returned entry i
CliOutput(feed, i, target_date) ==
  IF i > 0
  THEN [kind |-> "content", content |-> extract_entry_content(feed[i]), target_date |-> target_date,
        range |-> [min |-> NoDate, max |-> NoDate]]
  ELSE [kind |-> "not_found", content |-> extract_entry_content(BlankEntry),
        target_date |-> target_date, range |-> fetch_news_get_date_range(feed)]

(***************************************************************************)
(* HTMLGenerator.generate_daily on a result dict: the theme lookup, the    *)
(* type demands of _build_daily_html on summary, categories and keywords,  *)
(* the data-theme attribute of the page, and update_index.  The rest of    *)
(* the page text is not modelled.                                          *)
(***************************************************************************)
INDEX_KEEP == 30

\* THEMES.get(theme_name, ...) raises on an unhashable key
ThemeLookupRaises(d) == DictGet(d, "theme").t \in {"arr", "obj"}

\* item.get(...) and item_tags[:4] in the item loop
ItemRaises(item) ==
  IF item.t # "obj" THEN TRUE
  ELSE LET tags == IF "tags" \in DOMAIN item.v THEN item.v["tags"] ELSE JArr(<<>>) IN
    Truthy(tags) /\ tags.t \notin {"arr", "str"}

\* cat.get("items") and the loop over it
CategoryRaises(cat) ==
  IF cat.t # "obj" THEN TRUE
  ELSE LET items == DictGet(cat.v, "items") IN
    IF ~Truthy(items) THEN FALSE
    ELSE IF items.t # "arr" THEN TRUE
    ELSE \E i \in 1..Len(items.v) : ItemRaises(items.v[i])

\* `for cat in categories`
CategoriesRaise(c) ==
  CASE c.t = "arr" -> \E i \in 1..Len(c.v) : CategoryRaises(c.v[i])
    [] c.t = "str" -> Len(c.v) > 0
    [] c.t = "obj" -> DOMAIN c.v # {}
    [] OTHER -> TRUE

\* `if summary:` and the loop over it
SummaryRaises(x) == Truthy(x) /\ x.t \in {"num", "bool"}

\* " | ".join(keywords) and keywords + SITE_META['keywords']
KeywordsRaise(k) == k.t # "arr" \/ \E i \in 1..Len(k.v) : k.v[i].t # "str"

\* _build_daily_html raises
BuildRaises(d) ==
  \/ SummaryRaises(IF "summary" \in DOMAIN d THEN d["summary"] ELSE JArr(<<>>))
  \/ CategoriesRaise(IF "categories" \in DOMAIN d THEN d["categories"] ELSE JArr(<<>>))
  \/ KeywordsRaise(IF "keywords" \in DOMAIN d THEN d["keywords"] ELSE JArr(<<>>))

\* result.get('theme', 'blue') as written into the data-theme attribute
DataTheme(d) == IF "theme" \in DOMAIN d THEN PyStr(d["theme"]) ELSE "blue"

\* f"{date}.html"
PageName(date) == PyStr(date) \o ".html"

\* `summary[0] if summary else ...` followed by summary_text[:100]: [exc, val]
SummaryText(x) ==
  IF ~Truthy(x) THEN Ret(JStr(Prefix("no summary yet", 100)))
  ELSE LET h == GetFirst(x) IN
    IF h.exc # "" THEN h
    ELSE IF h.val.t = "str" THEN Ret(JStr(Prefix(h.val.v, 100)))
    ELSE IF h.val.t = "arr" THEN Ret(JArr(SubSeq(h.val.v, 1, IF Len(h.val.v) < 100 THEN Len(h.val.v) ELSE 100)))
    ELSE Exc("TypeError")

\* the list update_index saves: the entry of date first, the other dates
\* after it in their order, cut to INDEX_KEEP entries
\* an update that writes the new entry alone
NewIndexAlone(existing_entries, date, summary_text) ==
  <<[date |-> date, url |-> PageName(date), summary |-> summary_text]>>

\* an update that keeps the entry the index already has for the date
NewIndexKeepingOld(existing_entries, date, summary_text) ==
  LET new_entry == [date |-> date, url |-> PageName(date), summary |-> summary_text]
      all == <<new_entry>> \o existing_entries
  IN SubSeq(all, 1, IF Len(all) < INDEX_KEEP THEN Len(all) ELSE INDEX_KEEP)

NewIndex(existing_entries, date, summary_text) ==
  LET new_entry == [date |-> date, url |-> PageName(date), summary |-> summary_text]
      kept == SelectSeq(existing_entries, LAMBDA e : e.date # date)
      all == <<new_entry>> \o kept
  IN SubSeq(all, 1, IF Len(all) < INDEX_KEEP THEN Len(all) ELSE INDEX_KEEP)

(***************************************************************************)
(* Inputs: the feeds, the target dates and the replies of the analysis     *)
(* service the runs are checked on.                                        *)
(***************************************************************************)
MaxFeedLen == 2

\* c * n
RECURSIVE Rep(_, _)
Rep(c, n) ==
  IF n = 0 THEN ""
  ELSE LET h == Rep(c, n \div 2) IN h \o h \o (IF n % 2 = 1 THEN c ELSE "")

\* a link date and no timestamp
EntryLinkOnly ==
  [BlankEntry EXCEPT !.present = {"link", "summary"},
                     !.link = "https://news.smol.ai/issues/26-01-13-not-much/",
                     !.summary = "Hello &amp; World"]

\* a link date and a timestamp on another day
EntryLinkAndPub ==
  [BlankEntry EXCEPT !.present = {"title", "link", "id", "description", "summary",
                                  "published", "published_parsed"},
                     !.title = "Both dates",
                     !.link = "https://news.smol.ai/issues/26-01-13-both/",
                     !.id = "tag:both",
                     !.description = "Two dates &lt;b&gt;",
                     !.summary = "Two dates &lt;b&gt;",
                     !.published = "Wed, 14 Jan 2026 08:30:00 GMT",
                     !.published_parsed = <<2026, 1, 14, 8, 30, 0>>]

\* a timestamp only, a long title and description, a content block
EntryPubOnly ==
  [BlankEntry EXCEPT !.present = {"title", "description", "content", "published_parsed"},
                     !.title = Rep("T", 101),
                     !.description = Rep("d", 201),
                     !.content = <<[has_value |-> TRUE, value |-> "<p>GPT &amp;amp; co</p>"]>>,
                     !.published_parsed = <<2026, 1, 14, 23, 59, 59>>]

\* neither a link nor a timestamp
EntryBare ==
  [BlankEntry EXCEPT !.present = {"title"}, !.title = "No date at all"]

Entries == {EntryLinkOnly, EntryLinkAndPub, EntryPubOnly, EntryBare}

\* a feed lists each issue once
Feeds ==
  UNION {{f \in [1..n -> Entries] : \A i, j \in 1..n : f[i] = f[j] => i = j} :
           n \in 0..MaxFeedLen}

\* entries for the direct calls of the feed functions: the link forms, the
\* timestamps and the field combinations feedparser can deliver
ProbeEntries ==
  Entries \cup
  {[BlankEntry EXCEPT !.present = {"summary", "published_parsed"},
                      !.summary = "midnight",
                      !.published_parsed = <<2026, 1, 14, 0, 0, 0>>],
   [BlankEntry EXCEPT !.present = {"title", "published_parsed"},
                      !.title = "noon",
                      !.published_parsed = <<2026, 1, 13, 12, 0, 0>>],
   [BlankEntry EXCEPT !.present = {"title", "link", "summary"},
                      !.title = "Four digits",
                      !.link = "https://news.smol.ai/issues/2026-01-14-four/"],
   [BlankEntry EXCEPT !.present = {"link"},
                      !.link = "https://news.smol.ai/issues/2026-01-14-re/issues/26-01-12-x/"],
   [BlankEntry EXCEPT !.present = {"link", "summary", "content", "published_parsed"},
                      !.link = "https://news.smol.ai/about",
                      !.summary = "Fallback text",
                      !.content = <<[has_value |-> TRUE, value |-> ""]>>,
                      !.published_parsed = <<2026, 1, 12, 6, 0, 0>>],
   [BlankEntry EXCEPT !.present = {"link", "updated", "published_parsed"},
                      !.link = "https://news.smol.ai/issues/26-01-13",
                      !.updated = "2026-01-13T00:00:00Z"],
   [BlankEntry EXCEPT !.present = {"title", "link", "id", "description", "summary",
                                   "content", "published"},
                      !.title = "A &amp; B",
                      !.link = "https://news.smol.ai/issues/26-01-15-q/?a=1&amp;b=2",
                      !.id = "tag:&lt;1&gt;",
                      !.description = "&lt;p&gt;",
                      !.summary = "s",
                      !.content = <<[has_value |-> TRUE, value |-> "x &amp;lt; y &lt;b&gt;"]>>,
                      !.published = "&gt;now"],
   BlankEntry,
   [BlankEntry EXCEPT !.present = {"link", "guid", "content"},
                      !.link = "https://news.smol.ai/issues/126-01-13-x/",
                      !.guid = "g-1"],
   [BlankEntry EXCEPT !.present = {"description", "summary", "content"},
                      !.description = "desc",
                      !.summary = "sum",
                      !.content = <<[has_value |-> FALSE, value |-> ""]>>]}

ProbeFeeds ==
  UNION {{f \in [1..n -> ProbeEntries] : \A i, j \in 1..n : f[i] = f[j] => i = j} :
           n \in 0..MaxFeedLen}

TargetDates == {"2026-01-13", "2026-01-14", "2026-1-14", "13/01/2026"}

\* model texts that are not the encoding of a full result
RawPayloads ==
  {"{}",
   "{\"status\": \"success\"}",
   "{\"theme\": \"red\"}",
   "{\"theme\": \"purple\", \"summary\": [\"one\", \"two\"], \"extra\": 1}",
   "{\"status\": \"empty\", \"date\": \"2026-01-01\", \"keywords\": []}",
   "{\"summary\": null}",
   "{\"keywords\": 5, \"categories\": \"none\"}",
   "[]",
   "[\"status\", \"date\", \"theme\", \"summary\", \"keywords\", \"categories\"]",
   "5",
   "\"status only\"",
   "null",
   "true",
   "Here is the analysis you asked for.",
   "{\"status\": \"succ",
   ""}

\* fully populated results
FullResults ==
  <<JObj([status |-> JStr("success"), date |-> JStr("2026-01-13"), theme |-> JStr("teal"),
          summary |-> JArr(<<JStr("Model \"X\" released"), JStr("Line one\nline two")>>),
          keywords |-> JArr(<<JStr("Anthropic"), JStr("Claude")>>),
          categories |-> JArr(<<JObj([key |-> JStr("model"), name |-> JStr("Models"),
                                      icon |-> JStr("M"),
                                      items |-> JArr(<<JObj([title |-> JStr("X 1.5"),
                                                             summary |-> JStr("4B model"),
                                                             url |-> JStr("https://x.ai/a\\b"),
                                                             tags |-> JArr(<<JStr("X")>>)])>>)])>>)]),
    JObj([status |-> JStr("empty"), date |-> JStr("2026-01-14"), theme |-> JStr("gray"),
          summary |-> JArr(<<JStr("^^^ fenced ^^^")>>),
          keywords |-> JArr(<<JStr("AI")>>),
          categories |-> JArr(<<JObj([key |-> JStr("product"), name |-> JStr("Products"),
                                      icon |-> JStr("P"), items |-> JArr(<<>>)])>>)])>>

\* how the model wraps its payload
Wraps == {"bare", "fence", "json", "JSON", "javascript", "padded"}

FencedWraps == {"fence", "json", "JSON", "javascript"}

Wrap(w, payload) ==
  CASE w = "bare" -> payload
    [] w = "fence" -> FENCE \o "\n" \o payload \o "\n" \o FENCE
    [] w = "json" -> FENCE \o "json\n" \o payload \o "\n" \o FENCE
    [] w = "JSON" -> FENCE \o "JSON\n" \o payload \o "\n" \o FENCE
    [] w = "javascript" -> FENCE \o "javascript\n" \o payload \o "\n" \o FENCE
    [] w = "padded" -> "\n  " \o payload \o " \n"

\* the shapes of the decoded response body around the model text
TextShapes == {"openai", "claude", "result", "text", "data", "empty_choices"}

OtherShapes == {"bad_choices", "list", "number", "empty_object", "error_object", "html"}

NoReply == [status |-> 0, shape |-> "none", payload |-> "", full |-> 0, wrap |-> "bare"]

Replies ==
  {[status |-> 200, shape |-> "openai", payload |-> p, full |-> 0, wrap |-> w] :
     p \in RawPayloads, w \in {"bare", "json"}}
  \cup {[status |-> 200, shape |-> "openai", payload |-> p, full |-> 0, wrap |-> w] :
     p \in {"{}", "{\"summary\": null}"}, w \in Wraps}
  \cup {[status |-> 200, shape |-> "openai", payload |-> Dumps(FullResults[j]), full |-> j, wrap |-> w] :
     j \in 1..Len(FullResults), w \in Wraps}
  \cup {[status |-> 200, shape |-> sh, payload |-> p, full |-> 0, wrap |-> "json"] :
     sh \in TextShapes \ {"openai"}, p \in {"{\"theme\": \"red\"}", ""}}
  \cup {[status |-> st, shape |-> sh, payload |-> "", full |-> 0, wrap |-> "bare"] :
     st \in {200, 401, 500}, sh \in OtherShapes}
  \cup {[status |-> st, shape |-> "openai", payload |-> "{}", full |-> 0, wrap |-> "bare"] :
     st \in {401, 500}}

\* the text the model produced
ModelText(reply) == Wrap(reply.wrap, reply.payload)

\* the body of the HTTP response
Body(reply) ==
  LET t == JStr(ModelText(reply)) IN
  CASE reply.shape = "openai" ->
         Dumps(JObj([choices |-> JArr(<<JObj([message |-> JObj([role |-> JStr("assistant"), content |-> t])])>>)]))
    [] reply.shape = "claude" -> Dumps(JObj([content |-> JArr(<<JObj([text |-> t])>>)]))
    [] reply.shape = "result" -> Dumps(JObj([result |-> t]))
    [] reply.shape = "text" -> Dumps(JObj([text |-> t]))
    [] reply.shape = "data" -> Dumps(JObj([data |-> t]))
    [] reply.shape = "empty_choices" -> Dumps(JObj([choices |-> JArr(<<>>), result |-> t]))
    [] reply.shape = "bad_choices" -> "{\"choices\": [\"x\"]}"
    [] reply.shape = "list" -> "[]"
    [] reply.shape = "number" -> "5"
    [] reply.shape = "empty_object" -> "{}"
    [] reply.shape = "error_object" -> "{\"error\": {\"message\": \"unauthorized\"}}"
    [] reply.shape = "html" -> "<html>Bad Gateway</html>"

(***************************************************************************)
(* The state of a run.                                                     *)
(***************************************************************************)
VARIABLES
  program,      \* "pipeline" (src/) or "cli" (fetch_news.py)
  feed,         \* the entries of the fetched feed
  target_date,  \* the target date string
  pc,           \* the position of the run
  found,        \* the index of the entry get_content_by_date returned, 0 for None
  content,      \* the content record handed to analyze
  requests,     \* the number of requests.post calls made by analyze
  sent,         \* the reply of the analysis service, NoReply before it
  parse,        \* [called, text, outcome] of _parse_result in this run
  result,       \* the dict analyze returned
  page,         \* [written, name, data_theme] of the page file
  index,        \* the entries of .index.json
  error,        \* the exception that ended the run, "" when none
  output,       \* what fetch_news.main printed
  returned,     \* [call, index, date, range, record]: what a direct call of a feed function returned
  prompt,      \* the prompt analyze built for its request, "" before it
  runs,        \* [run -> [pc, date, result, existing]]: the update_index call of each run
  mail          \* [call, config, pc, connections, failed, ret]: a send_* call of the notifier

vars == <<program, feed, target_date, pc, found, content, requests, sent, parse,
          result, page, index, error, output, returned,
          prompt, runs, mail>>

NoParse == [called |-> FALSE, text |-> "", outcome |-> Raised("")]

NoPage == [written |-> FALSE, name |-> "", data_theme |-> ""]

NoReturn ==
  [call |-> "", index |-> 0, date |-> NoDate, range |-> [min |-> NoDate, max |-> NoDate],
   record |-> NoContent]

\* the notifier before any send_* call
NoMail ==
  [call |-> "", disabled |-> FALSE, host |-> "", user |-> "", password |-> "", to_email |-> "",
   file_ok |-> FALSE, pc |-> "idle", connections |-> 0, failed |-> "", exc |-> "", ret |-> ""]

MaxRuns == 2

\* the runs that call update_index on the same output directory, once each
RunIds == 1..MaxRuns

\* a run that is outside update_index
IdleRun == [pc |-> "idle", date |-> JNull, result |-> JNull, existing |-> <<>>]

NoRuns == [r \in RunIds |-> IdleRun]

Init ==
  /\ program \in {"pipeline", "cli"}
  /\ feed \in Feeds
  /\ target_date \in TargetDates
  /\ pc = "start"
  /\ found = 0
  /\ content = NoContent
  /\ requests = 0
  /\ sent = NoReply
  /\ parse = NoParse
  /\ result = JNull
  /\ page = NoPage
  /\ index = <<>>
  /\ error = ""
  /\ output = NoOutput
  /\ returned = NoReturn
  /\ prompt = ""
  /\ runs = NoRuns
  /\ mail = NoMail

(***************************************************************************)
(* The pipeline of src/: resolve the target date, analyze, render.         *)
(***************************************************************************)
\* a lookup that takes the entry it returns out of the feed
ResolveConsuming ==
  /\ pc = "start"
  /\ program = "pipeline"
  /\ LET r == get_content_by_date(target_date, feed) IN
       /\ found' = r.found
       /\ content' = r.content
       /\ pc' = IF r.raised THEN "failed" ELSE "analyze"
       /\ error' = IF r.raised THEN "ValueError" ELSE ""
       /\ feed' = IF r.found = 0 THEN feed
                  ELSE SubSeq(feed, 1, r.found - 1) \o SubSeq(feed, r.found + 1, Len(feed))
  /\ UNCHANGED <<program, target_date, requests, sent, parse, result, page, index, output,
                 returned, prompt, runs, mail>>

\* RSSFetcher.get_content_by_date(target_date, feed); a malformed target
\* raises ValueError out of the run
Resolve ==
  /\ pc = "start"
  /\ program = "pipeline"
  /\ LET r == get_content_by_date(target_date, feed) IN
       /\ found' = r.found
       /\ content' = r.content
       /\ pc' = IF r.raised THEN "failed" ELSE "analyze"
       /\ error' = IF r.raised THEN "ValueError" ELSE ""
  /\ UNCHANGED <<program, feed, target_date, requests, sent, parse, result, page, index, output, returned,
                 prompt, runs, mail>>

\* analyze: the early return for a missing or empty content record
AnalyzeEmpty ==
  /\ pc = "analyze"
  /\ ContentIsEmpty(content)
  /\ result' = _empty_result(target_date, "content is empty")
  /\ pc' = "analyzed"
  /\ UNCHANGED <<program, feed, target_date, found, content, requests, sent, parse, page,
                 index, error, output, returned, prompt, runs, mail>>

\* analyze: the prompt is built and requests.post is called, once
AnalyzePost ==
  /\ pc = "analyze"
  /\ ~ContentIsEmpty(content)
  /\ prompt' = _build_prompt(content, target_date)
  /\ requests' = requests + 1
  /\ pc' = "posting"
  /\ UNCHANGED <<program, feed, target_date, found, content, sent, parse, result, page,
                 index, error, output, returned, runs, mail>>

\* requests.post raises (connection refused, DNS failure, ...): the except
\* branch returns the fallback result
PostRaises ==
  /\ pc = "posting"
  /\ result' = AnalyzeReturn(Raised("RequestException"), content, target_date)
  /\ pc' = "analyzed"
  /\ UNCHANGED <<program, feed, target_date, found, content, requests, sent, parse, page,
                 index, error, output, returned, prompt, runs, mail>>

\* analyze returns what the try body h made of the reply
Answered(reply, h) ==
  /\ sent' = reply
  /\ parse' = (IF h.called THEN h ELSE parse)
  /\ result' = AnalyzeReturn(h.outcome, content, target_date)

\* requests.post returns a response: the rest of the try body runs and
\* analyze returns its result or, on any exception, the fallback result
PostReturns ==
  /\ pc = "posting"
  /\ \E reply \in Replies :
       Answered(reply, HandleResponse(reply.status, Body(reply), target_date))
  /\ pc' = "analyzed"
  /\ UNCHANGED <<program, feed, target_date, found, content, requests, page, index, error,
                 output, returned, prompt, runs, mail>>

\* requests.post is called without a timeout: when the service accepts the
\* connection and never answers, the call never returns
PostHangs ==
  /\ pc = "posting"
  /\ pc' = "blocked"
  /\ UNCHANGED <<program, feed, target_date, found, content, requests, sent, parse, result,
                 page, index, error, output, returned, prompt, runs, mail>>

\* HTMLGenerator.generate_daily(result)
GenerateDaily ==
  /\ pc = "analyzed"
  /\ LET d == result.v
         date == IF "date" \in DOMAIN d THEN d["date"] ELSE JStr(target_date)
         s == SummaryText(IF "summary" \in DOMAIN d THEN d["summary"] ELSE JArr(<<>>))
     IN IF ThemeLookupRaises(d) \/ BuildRaises(d)
        THEN /\ pc' = "failed"
             /\ error' = "RenderError"
             /\ UNCHANGED <<page, index>>
        ELSE /\ page' = [written |-> TRUE, name |-> PageName(date), data_theme |-> DataTheme(d)]
             /\ IF s.exc # ""
                THEN /\ pc' = "failed"
                     /\ error' = s.exc
                     /\ UNCHANGED index
                ELSE /\ pc' = "done"
                     /\ index' = NewIndex(index, date, s.val)
                     /\ UNCHANGED error
  /\ UNCHANGED <<program, feed, target_date, found, content, requests, sent, parse, result,
                 output, returned, prompt, runs, mail>>

\* HTMLGenerator.generate_empty(date, reason) for an empty result
GenerateEmpty ==
  /\ pc = "analyzed"
  /\ result.v["status"] = JStr("empty")
  /\ page' = [written |-> TRUE, name |-> target_date \o ".html", data_theme |-> "gray"]
  /\ pc' = "done"
  /\ UNCHANGED <<program, feed, target_date, found, content, requests, sent, parse, result,
                 index, error, output, returned, prompt, runs, mail>>

(***************************************************************************)
(* The plugin script: fetch_news.main with --date.                         *)
(***************************************************************************)
CliMain ==
  /\ pc = "start"
  /\ program = "cli"
  /\ found' = fetch_news_get_content_by_date(feed, target_date)
  /\ output' = CliOutput(feed, found', target_date)
  /\ pc' = "done"
  /\ UNCHANGED <<program, feed, target_date, content, requests, sent, parse, result, page,
                 index, error, returned, prompt, runs, mail>>

(***************************************************************************)
(* Direct calls of the feed functions on a fetched feed.                   *)
(***************************************************************************)
\* _extract_date_from_link(entry.link) (extract_date_from_link in the script)
ExtractLink ==
  /\ pc = "start"
  /\ \E i \in 1..Len(feed) :
       /\ HasAttr(feed[i], "link")
       /\ returned' = [NoReturn EXCEPT !.call = "extract_date_from_link", !.index = i,
                                       !.date = _extract_date_from_link(feed[i].link)]
  /\ pc' = "returned"
  /\ UNCHANGED <<program, feed, target_date, found, content, requests, sent, parse, result,
                 page, index, error, output, prompt, runs, mail>>

\* _extract_entry_content(entry) (extract_entry_content in the script)
ExtractEntry ==
  /\ pc = "start"
  /\ \E i \in 1..Len(feed) :
       returned' = [NoReturn EXCEPT !.call = "extract_entry_content", !.index = i,
                                    !.record = IF program = "pipeline"
                                               THEN _extract_entry_content(feed[i])
                                               ELSE extract_entry_content(feed[i])]
  /\ pc' = "returned"
  /\ UNCHANGED <<program, feed, target_date, found, content, requests, sent, parse, result,
                 page, index, error, output, prompt, runs, mail>>

\* RSSFetcher.get_date_range(feed)
DateRange ==
  /\ pc = "start"
  /\ program = "pipeline"
  /\ returned' = [NoReturn EXCEPT !.call = "get_date_range", !.range = get_date_range(feed)]
  /\ pc' = "returned"
  /\ UNCHANGED <<program, feed, target_date, found, content, requests, sent, parse, result,
                 page, index, error, output, prompt, runs, mail>>

\* fetch_news.main with --date-range
CliDateRange ==
  /\ pc = "start"
  /\ program = "cli"
  /\ output' = [NoOutput EXCEPT !.kind = "date_range", !.range = fetch_news_get_date_range(feed)]
  /\ pc' = "done"
  /\ UNCHANGED <<program, feed, target_date, found, content, requests, sent, parse, result,
                 page, index, error, returned, prompt, runs, mail>>

\* get_content_by_date called a second time with the same feed and target
LookupAgain ==
  /\ returned.call = ""
  /\ \/ program = "pipeline" /\ pc = "analyze"
     \/ program = "cli" /\ pc = "done" /\ output.kind \in {"content", "not_found"}
  /\ returned' =
       IF program = "pipeline"
       THEN [NoReturn EXCEPT !.call = "get_content_by_date",
                             !.index = get_content_by_date(target_date, feed).found,
                             !.record = get_content_by_date(target_date, feed).content]
       ELSE [NoReturn EXCEPT !.call = "get_content_by_date",
                             !.index = fetch_news_get_content_by_date(feed, target_date),
                             !.record = CliOutput(feed, fetch_news_get_content_by_date(feed, target_date),
                                                  target_date).content]
  /\ pc' = "returned"
  /\ UNCHANGED <<program, feed, target_date, found, content, requests, sent, parse, result,
                 page, index, error, output, prompt, runs, mail>>

Next ==
  \/ Resolve
  \/ AnalyzeEmpty
  \/ AnalyzePost
  \/ PostRaises
  \/ PostReturns
  \/ PostHangs
  \/ GenerateDaily
  \/ GenerateEmpty
  \/ CliMain

Spec == Init /\ [][Next]_vars

\* a call of requests.post does not stay pending: it blocks for good,
\* raises or returns
FairSpec == Spec /\ WF_vars(PostHangs \/ PostRaises \/ PostReturns)

\* the feed functions called on a fetched feed: the lookup of a target date,
\* the date range, and the extraction of one link date or one entry
FeedInit ==
  /\ program \in {"pipeline", "cli"}
  /\ feed \in ProbeFeeds
  /\ target_date \in TargetDates
  /\ pc = "start"
  /\ found = 0
  /\ content = NoContent
  /\ requests = 0
  /\ sent = NoReply
  /\ parse = NoParse
  /\ result = JNull
  /\ page = NoPage
  /\ index = <<>>
  /\ error = ""
  /\ output = NoOutput
  /\ returned = NoReturn
  /\ prompt = ""
  /\ runs = NoRuns
  /\ mail = NoMail

FeedNext ==
  \/ Resolve
  \/ CliMain
  \/ ExtractLink
  \/ ExtractEntry
  \/ DateRange
  \/ CliDateRange
  \/ LookupAgain

FeedSpec == FeedInit /\ [][FeedNext]_vars

(***************************************************************************)
(* analyze_content called with a content record of any size: the record    *)
(* is missing, or has a body that is empty, one character, or one below,   *)
(* at, one above and twice the limit of _build_prompt.  The API key of the *)
(* configuration is set or not.                                            *)
(***************************************************************************)
PromptBodyLengths ==
  {1, PROMPT_BODY_LIMIT - 1, PROMPT_BODY_LIMIT, PROMPT_BODY_LIMIT + 1, 2 * PROMPT_BODY_LIMIT}

\* a body of n characters whose first and last characters differ from the
\* rest, and the empty body
PromptBodies ==
  {""} \cup {"s" \o Rep("a", n - 1) : n \in PromptBodyLengths}
       \cup {Rep("a", n - 1) \o "z" : n \in PromptBodyLengths}

PromptContents ==
  {NoContent}
  \cup {[none |-> FALSE, title |-> t, link |-> l, guid |-> l, description |-> "",
         content |-> b, pubDate |-> ""] :
          t \in {"", "AI News"}, l \in {"", "https://news.smol.ai/issues/26-01-13-x/"},
          b \in PromptBodies}

\* the values of K2_API_KEY: not set, set
ApiKeys == {"", "sk-key"}

\* analyze_content: ClaudeAnalyzer(), whose __init__ raises ValueError
\* when there is no API key
AnalyzerInit ==
  /\ pc = "construct"
  /\ \E api_key \in ApiKeys :
       IF api_key = ""
       THEN /\ pc' = "failed"
            /\ error' = "ValueError: K2_API_KEY is not set"
       ELSE /\ pc' = "analyze"
            /\ UNCHANGED error
  /\ UNCHANGED <<program, feed, target_date, found, content, requests, sent, parse, result,
                 page, index, output, returned, prompt, runs, mail>>

PromptInit ==
  /\ program = "pipeline"
  /\ feed = <<>>
  /\ target_date \in TargetDates
  /\ pc = "construct"
  /\ found = 0
  /\ content \in PromptContents
  /\ requests = 0
  /\ sent = NoReply
  /\ parse = NoParse
  /\ result = JNull
  /\ page = NoPage
  /\ index = <<>>
  /\ error = ""
  /\ output = NoOutput
  /\ returned = NoReturn
  /\ prompt = ""
  /\ runs = NoRuns
  /\ mail = NoMail

PromptNext ==
  \/ AnalyzerInit
  \/ AnalyzeEmpty
  \/ AnalyzePost

PromptSpec == PromptInit /\ [][PromptNext]_vars

(***************************************************************************)
(* update_index called by one run after another, or by runs that overlap,  *)
(* on one output directory.  A call reads .index.json in one step and      *)
(* writes it in a later one; nothing in the code locks the file between.   *)
(***************************************************************************)
\* an entry update_index wrote for day n of December 2025
IndexEntryOfDay(n) ==
  LET date == JStr("2025-12-" \o LeftPad(NatStr(n), 2)) IN
    [date |-> date, url |-> PageName(date), summary |-> JStr("earlier summary")]

\* the index n daily runs left behind, the latest day first
IndexOfDays(n) == [i \in 1..n |-> IndexEntryOfDay(n + 1 - i)]

\* no file, one entry, one entry below the limit and a full index
WellFormedIndexes == {IndexOfDays(n) : n \in {0, 1, INDEX_KEEP - 1, INDEX_KEEP}}

\* dates new to every index, the oldest date and a date in the middle
CallDates == {JStr("2026-01-13"), JStr("2026-01-14"), JStr("2025-12-01"), JStr("2025-12-15")}

\* the result argument: None, a summary line, a summary whose first item
\* is not a string
IndexResults ==
  {JNull,
   JObj([summary |-> JArr(<<JStr("First line")>>)]),
   JObj([summary |-> JArr(<<JNum(5)>>)])}

\* result.get("summary", []) if result else []
ResultSummary(res) ==
  IF Truthy(res) /\ "summary" \in DOMAIN res.v THEN res.v["summary"] ELSE JArr(<<>>)

\* update_index up to the end of json.load: the run holds what it read
IndexRead(r) ==
  /\ pc = "index"
  /\ runs[r].pc = "idle"
  /\ \E date \in CallDates, res \in IndexResults :
       runs' = [runs EXCEPT ![r] = [pc |-> "read", date |-> date, result |-> res,
                                    existing |-> index]]
  /\ UNCHANGED <<program, feed, target_date, pc, found, content, requests, sent, parse,
                 result, page, index, error, output, returned, prompt, mail>>

\* update_index from the new entry to json.dump: the run writes the list
\* it built from what it read, or raises before it opens the file
IndexWrite(r) ==
  /\ pc = "index"
  /\ runs[r].pc = "read"
  /\ LET s == SummaryText(ResultSummary(runs[r].result)) IN
       IF s.exc # ""
       THEN /\ runs' = [runs EXCEPT ![r].pc = "raised"]
            /\ UNCHANGED index
       ELSE /\ runs' = [runs EXCEPT ![r].pc = "done"]
            /\ index' = NewIndex(runs[r].existing, runs[r].date, s.val)
  /\ UNCHANGED <<program, feed, target_date, pc, found, content, requests, sent, parse,
                 result, page, error, output, returned, prompt, mail>>

IndexInit ==
  /\ program = "pipeline"
  /\ feed = <<>>
  /\ target_date = "2026-01-14"
  /\ pc = "index"
  /\ found = 0
  /\ content = NoContent
  /\ requests = 0
  /\ sent = NoReply
  /\ parse = NoParse
  /\ result = JNull
  /\ page = NoPage
  /\ index \in WellFormedIndexes
  /\ error = ""
  /\ output = NoOutput
  /\ returned = NoReturn
  /\ prompt = ""
  /\ runs = NoRuns
  /\ mail = NoMail

IndexNext ==
  \/ \E r \in RunIds : IndexRead(r)
  \/ \E r \in RunIds : IndexWrite(r)

IndexSpec == IndexInit /\ [][IndexNext]_vars

(***************************************************************************)
(* The notifier: a send_success, send_empty or send_error call after the   *)
(* pipeline produced its result, under every configuration and with every  *)
(* outcome of the four SMTP steps.                                         *)
(***************************************************************************)
\* EmailNotifier._is_configured
_is_configured(m) ==
  IF m.disabled THEN FALSE
  ELSE m.host # "" /\ m.user # "" /\ m.password # "" /\ m.to_email # ""

\* the classes of the exceptions the SMTP steps raise, each with its bases
ExcBases ==
  [SMTPAuthenticationError |-> {"SMTPAuthenticationError", "SMTPResponseException",
                                "SMTPException", "OSError", "Exception"},
   SMTPConnectError |-> {"SMTPConnectError", "SMTPResponseException", "SMTPException",
                         "OSError", "Exception"},
   SMTPServerDisconnected |-> {"SMTPServerDisconnected", "SMTPException", "OSError", "Exception"},
   SMTPNotSupportedError |-> {"SMTPNotSupportedError", "SMTPException", "OSError", "Exception"},
   SMTPRecipientsRefused |-> {"SMTPRecipientsRefused", "SMTPException", "OSError", "Exception"},
   TimeoutError |-> {"TimeoutError", "OSError", "Exception"},
   SSLError |-> {"SSLError", "OSError", "Exception"},
   ValueError |-> {"ValueError", "Exception"}]

\* what each step of the with block can raise
StepErrors ==
  [connect |-> {"SMTPConnectError", "SMTPServerDisconnected", "TimeoutError"},
   starttls |-> {"SMTPNotSupportedError", "SMTPServerDisconnected", "SSLError"},
   login |-> {"SMTPAuthenticationError", "SMTPNotSupportedError", "SMTPServerDisconnected"},
   send_message |-> {"SMTPRecipientsRefused", "SMTPServerDisconnected", "ValueError"}]

\* the except clauses of _send, in order
SendClauses ==
  <<"SMTPAuthenticationError", "SMTPConnectError", "SMTPServerDisconnected", "SMTPException",
    "Exception">>

\* a _send that handles the SMTP exceptions only
SendExceptSmtpOnly(exc) ==
  IF \E i \in 1..4 : SendClauses[i] \in ExcBases[exc] THEN "False" ELSE "raised"

\* the except clauses of _send applied to an exception of the try body:
\* what the call returns, or that it raises
SendExcept(exc) ==
  IF \E i \in DOMAIN SendClauses : SendClauses[i] \in ExcBases[exc] THEN "False" ELSE "raised"

\* the call after a step of the try body ended with the outcome
AfterStep(m, step, outcome, next) ==
  IF outcome = "ok"
  THEN [m EXCEPT !.pc = next, !.ret = IF next = "returned" THEN "True" ELSE ""]
  ELSE [m EXCEPT !.pc = IF SendExcept(outcome) = "raised" THEN "raised" ELSE "returned",
                 !.failed = step, !.exc = outcome,
                 !.ret = IF SendExcept(outcome) = "raised" THEN "" ELSE "False"]

MailUnchanged ==
  UNCHANGED <<program, feed, target_date, pc, found, content, requests, sent, parse,
              result, page, index, error, output, returned, prompt, runs>>

\* EmailNotifier() and send_success, send_empty or send_error up to the
\* call of _send: the subject and the body are built; send_success reads
\* the page file inside its own try/except
SendBuild ==
  /\ pc = "notify"
  /\ mail.pc = "idle"
  /\ \E call \in {"send_success", "send_empty", "send_error"}, disabled, file_ok \in BOOLEAN,
        host \in {"", "smtp.gmail.com"}, user \in {"", "me@example.com"},
        password \in {"", "secret"}, to_email \in {"", "you@example.com"} :
       mail' = [NoMail EXCEPT !.call = call, !.disabled = disabled, !.host = host,
                              !.user = user, !.password = password, !.to_email = to_email,
                              !.file_ok = file_ok, !.pc = "built"]
  /\ MailUnchanged

\* _send: not configured, return False
SendSkip ==
  /\ mail.pc = "built"
  /\ ~_is_configured(mail)
  /\ mail' = [mail EXCEPT !.pc = "returned", !.ret = "False"]
  /\ MailUnchanged

\* _send: smtplib.SMTP(host, port, timeout=15)
SmtpConnect ==
  /\ mail.pc = "built"
  /\ _is_configured(mail)
  /\ \E outcome \in {"ok"} \cup StepErrors.connect :
       mail' = [AfterStep(mail, "connect", outcome, "connected")
                  EXCEPT !.connections = mail.connections + 1]
  /\ MailUnchanged

\* _send: server.starttls()
SmtpStartTls ==
  /\ mail.pc = "connected"
  /\ \E outcome \in {"ok"} \cup StepErrors.starttls :
       mail' = AfterStep(mail, "starttls", outcome, "encrypted")
  /\ MailUnchanged

\* _send: server.login(user, password)
SmtpLogin ==
  /\ mail.pc = "encrypted"
  /\ \E outcome \in {"ok"} \cup StepErrors.login :
       mail' = AfterStep(mail, "login", outcome, "logged_in")
  /\ MailUnchanged

\* _send: server.send_message(msg) and return True
SmtpSendMessage ==
  /\ mail.pc = "logged_in"
  /\ \E outcome \in {"ok"} \cup StepErrors.send_message :
       mail' = AfterStep(mail, "send_message", outcome, "returned")
  /\ MailUnchanged

\* the pipeline after generate_daily or generate_empty wrote the page
NotifyInit ==
  /\ program = "pipeline"
  /\ feed = <<>>
  /\ target_date \in {"2026-01-13", "2026-01-14"}
  /\ pc = "notify"
  /\ found = 0
  /\ content = NoContent
  /\ requests = 0
  /\ sent = NoReply
  /\ parse = NoParse
  /\ result \in {_empty_result(target_date, "content is empty"),
                 DecodeFailureResult(target_date, "Expecting value")}
  /\ page = [written |-> TRUE, name |-> target_date \o ".html", data_theme |-> "blue"]
  /\ index = <<>>
  /\ error = ""
  /\ output = NoOutput
  /\ returned = NoReturn
  /\ prompt = ""
  /\ runs = NoRuns
  /\ mail = NoMail

NotifyNext ==
  \/ SendBuild
  \/ SendSkip
  \/ SmtpConnect
  \/ SmtpStartTls
  \/ SmtpLogin
  \/ SmtpSendMessage

NotifySpec == NotifyInit /\ [][NotifyNext]_vars

(***************************************************************************)
(* Properties of _parse_result and analyze.                                *)
(***************************************************************************)
\* json.loads of the text _parse_result was called with, fences stripped
ParsedJson == Loads(StripFences(parse.text))

\* x is a string naming one of the eight themes
IsThemeName(x) == x.t = "str" /\ x.v \in ThemeNames

\* analyze returned after its one request failed: requests.post raised, or
\* the response carried an error status
RequestFailed == pc = "analyzed" /\ requests = 1 /\ (sent = NoReply \/ sent.status >= 400)

\* the one item of the one category of the fallback result
FallbackItem == result.v["categories"].v[1].v["items"].v[1]

\* the date the link of an entry carries, NoDate when it carries none
LinkDate(entry) ==
  IF HasAttr(entry, "link") THEN _extract_date_from_link(entry.link) ELSE NoDate

\* C1: _parse_result never raises: whatever text it is called with, array,
\* number, string, null or boolean documents included, it returns a result.
C1_ParseNeverRaises == parse.called => ~parse.outcome.raised

\* C2: whatever the analysis service did (transport error, error status,
\* body that is not JSON, JSON body of any shape, model text of any shape),
\* analyze returns an object holding the six keys status, date, theme,
\* summary, keywords and categories.
C2_AnalyzeReturnsSixKeys ==
  pc = "analyzed" => result.t = "obj" /\ RequiredKeySet \subseteq DOMAIN result.v

\* analyze absorbed an exception that left _parse_result
C2_ParseRaisedAbsorbed ==
  /\ pc = "analyzed"
  /\ parse.called
  /\ parse.outcome.raised
  /\ RequiredKeySet \subseteq DOMAIN result.v

\* C3: when the text decodes to a JSON object, _parse_result returns an
\* object with the six keys, each key of the decoded object kept and each
\* absent key at its default; a partial object is never rejected.
C3_ObjectIsRepaired ==
  (parse.called /\ ParsedJson.ok /\ ParsedJson.val.t = "obj") =>
    /\ ~parse.outcome.raised
    /\ parse.outcome.value.t = "obj"
    /\ \A k \in RequiredKeySet :
         parse.outcome.value.v[k] =
           IF k \in DOMAIN ParsedJson.val.v THEN ParsedJson.val.v[k]
           ELSE DefaultOf(k, target_date)

\* C4: when the text, fences stripped, is not decodable as JSON,
\* _parse_result returns status "success", the target date, the default
\* theme, a summary of exactly one notice, keywords ["AI"], no categories,
\* and the decoder's message under parse_error.
C4_DecodeFailureIsMinimalResult ==
  (parse.called /\ ~ParsedJson.ok) =>
    /\ ~parse.outcome.raised
    /\ parse.outcome.value =
         JObj([status |-> JStr("success"),
               date |-> JStr(target_date),
               theme |-> JStr(DEFAULT_THEME),
               summary |-> JArr(<<JStr(NOTICE)>>),
               keywords |-> JArr(<<JStr("AI")>>),
               categories |-> JArr(<<>>),
               parse_error |-> JStr(ParsedJson.msg)])

\* _parse_result was handed a truncated document and returned the minimal
\* result with the decoder's message
C4_TruncatedTextParsed ==
  /\ parse.called
  /\ parse.text = "{\"status\": \"succ"
  /\ ~parse.outcome.raised
  /\ parse.outcome.value.v["parse_error"] = JStr("Unterminated string starting at")
  /\ parse.outcome.value.v["summary"] = JArr(<<JStr(NOTICE)>>)

\* C5: a JSON object text J inside a fenced block, with no language tag or
\* with any language tag, gives the same result as the bare text J.
C5_AnyFenceIsStripped ==
  (/\ parse.called
   /\ sent.wrap \in FencedWraps
   /\ parse.text = Wrap(sent.wrap, sent.payload)
   /\ Loads(sent.payload).ok
   /\ Loads(sent.payload).val.t = "obj") =>
    parse.outcome = _parse_result(sent.payload, target_date)

\* C6: a result with all six keys populated, written as JSON, bare or
\* inside a json fence, comes back from _parse_result with its six fields
\* unchanged; and no key present in a decoded object is overwritten.
C6_RoundTrip ==
  /\ (parse.called /\ sent.full > 0 /\ sent.wrap \in {"bare", "json"}) =>
       /\ parse.text = Wrap(sent.wrap, Dumps(FullResults[sent.full]))
       /\ ~parse.outcome.raised
       /\ \A k \in RequiredKeySet :
            parse.outcome.value.v[k] = FullResults[sent.full].v[k]
  /\ (parse.called /\ ParsedJson.ok /\ ParsedJson.val.t = "obj" /\ ~parse.outcome.raised) =>
       \A k \in DOMAIN ParsedJson.val.v : parse.outcome.value.v[k] = ParsedJson.val.v[k]

\* the first full result went through a json fence and came back whole
C6_FencedResultCameBack ==
  /\ parse.called
  /\ sent.full = 1
  /\ sent.wrap = "json"
  /\ StartsWith(parse.text, FENCE_JSON)
  /\ ~parse.outcome.raised
  /\ parse.outcome.value = FullResults[1]

\* C7 as stated: after a failed request analyze returns a "success" result
\* with one category of one item whose title, summary and url are the
\* content's title, description and link, tagged ["AI"].
C7_FallbackCopiesContent ==
  RequestFailed =>
    /\ result.v["status"] = JStr("success")
    /\ Len(result.v["categories"].v) = 1
    /\ Len(result.v["categories"].v[1].v["items"].v) = 1
    /\ FallbackItem.v["title"] = JStr(content.title)
    /\ FallbackItem.v["summary"] = JStr(content.description)
    /\ FallbackItem.v["url"] = JStr(content.link)
    /\ FallbackItem.v["tags"] = JArr(<<JStr("AI")>>)

\* C7: after a failed request analyze returns a "success" result with one
\* category of one item whose title is the first 100 characters of the
\* content's title, whose summary is the first 200 characters of its
\* description, whose url is its link, tagged ["AI"].
C7_FallbackCutsContent ==
  RequestFailed =>
    /\ result.v["status"] = JStr("success")
    /\ Len(result.v["categories"].v) = 1
    /\ Len(result.v["categories"].v[1].v["items"].v) = 1
    /\ FallbackItem.v["title"] =
         JStr(IF Len(content.title) <= 100 THEN content.title
              ELSE SubSeq(content.title, 1, 100))
    /\ FallbackItem.v["summary"] =
         JStr(IF Len(content.description) <= 200 THEN content.description
              ELSE SubSeq(content.description, 1, 200))
    /\ FallbackItem.v["url"] = JStr(content.link)
    /\ FallbackItem.v["tags"] = JArr(<<JStr("AI")>>)

\* the request failed for a content whose title and description are longer
\* than the cuts
C7_LongContentFellBack ==
  /\ RequestFailed
  /\ Len(content.title) = 101
  /\ Len(content.description) = 201
  /\ Len(FallbackItem.v["title"].v) = 100
  /\ Len(FallbackItem.v["summary"].v) = 200

\* C8: one analyze call requests the service at most once, and once the
\* request is made analyze eventually returns.
C8_OneRequestThenReturn ==
  /\ [](requests <= 1)
  /\ (pc = "posting") ~> (pc = "analyzed")

\* C9: the theme of every result of _parse_result and of analyze, and the
\* data-theme attribute of every page written, is one of the eight themes.
C9_ThemeIsOneOfEight ==
  /\ (parse.called /\ ~parse.outcome.raised) => IsThemeName(parse.outcome.value.v["theme"])
  /\ pc = "analyzed" => IsThemeName(result.v["theme"])
  /\ page.written => page.data_theme \in ThemeNames

\* C10: an entry whose link carries date L and whose timestamp falls on
\* another date P has date L only: the lookup of P never returns it, and
\* the lookup of L returns it or an entry before it.
C10_LinkDateWins ==
  \A i \in 1..Len(feed) :
    (/\ pc # "start"
     /\ error = ""
     /\ LinkDate(feed[i]) # NoDate
     /\ HasPublished(feed[i])
     /\ strftime(feed[i].published_parsed) # LinkDate(feed[i])) =>
      /\ target_date = strftime(feed[i].published_parsed) => found # i
      /\ target_date = LinkDate(feed[i]) => found \in 1..i

(***************************************************************************)
(* Properties of the feed functions.                                       *)
(***************************************************************************)
\* the link _extract_date_from_link was called with
ProbedLink == feed[returned.index].link

\* the positions of the link where /issues/ is followed by a year of yw
\* digits, "-", two digits, "-", two digits, "-"
IssueHits(link, yw) ==
  {i \in 1..(Len(link) - 14 - yw) :
     /\ SubSeq(link, i, i + 7) = "/issues/"
     /\ \A k \in 8..(13 + yw) :
          IF k \in {8 + yw, 11 + yw}
          THEN SubSeq(link, i + k, i + k) = "-"
          ELSE SubSeq(link, i + k, i + k) \in Digits
     /\ SubSeq(link, i + 14 + yw, i + 14 + yw) = "-"}

\* the yw-digit-year date text that starts after /issues/ at position i
DateText(link, i, yw) == SubSeq(link, i + 8, i + 13 + yw)

\* C11 as stated: every link containing /issues/YY-MM-DD- gives 20YY-MM-DD,
\* every link containing /issues/YYYY-MM-DD- gives YYYY-MM-DD, and every
\* other link gives none.
C11_EveryFormGivesItsDate ==
  returned.call = "extract_date_from_link" =>
    /\ \A i \in IssueHits(ProbedLink, 2) : returned.date = "20" \o DateText(ProbedLink, i, 2)
    /\ \A i \in IssueHits(ProbedLink, 4) : returned.date = DateText(ProbedLink, i, 4)
    /\ IssueHits(ProbedLink, 2) \cup IssueHits(ProbedLink, 4) = {} => returned.date = NoDate

\* C11, made exact: a link containing /issues/YY-MM-DD- gives 20YY-MM-DD of
\* its first such occurrence, whatever else the link holds; a link without
\* that form containing /issues/YYYY-MM-DD- gives YYYY-MM-DD of its first
\* occurrence, the year kept as is; every other link gives none.
C11_TwoDigitFormFirst ==
  returned.call = "extract_date_from_link" =>
    IF IssueHits(ProbedLink, 2) # {}
    THEN returned.date = "20" \o DateText(ProbedLink, Least(IssueHits(ProbedLink, 2)), 2)
    ELSE IF IssueHits(ProbedLink, 4) # {}
    THEN returned.date = DateText(ProbedLink, Least(IssueHits(ProbedLink, 4)), 4)
    ELSE returned.date = NoDate

\* the date of a link holding both forms was extracted
C11_BothFormsExtracted ==
  /\ returned.call = "extract_date_from_link"
  /\ IssueHits(ProbedLink, 2) # {}
  /\ IssueHits(ProbedLink, 4) # {}
  /\ returned.date = "2026-01-12"

\* get_content_by_date has returned, in the pipeline or in the script
LookedUp ==
  \/ program = "pipeline" /\ pc = "analyze"
  \/ program = "cli" /\ output.kind \in {"content", "not_found"}

\* d is written YYYY-MM-DD
Canonical(d) ==
  /\ Len(d) = 10
  /\ \A k \in 1..10 : IF k \in {5, 8} THEN SubSeq(d, k, k) = "-" ELSE SubSeq(d, k, k) \in Digits

\* the <<year, month, day>> a canonical date string names
YearMonthDay(d) == <<StrNat(SubSeq(d, 1, 4)), StrNat(SubSeq(d, 6, 7)), StrNat(SubSeq(d, 9, 10))>>

\* the entry carries a publication timestamp and no link date
TimestampOnly(entry) == HasPublished(entry) /\ LinkDate(entry) = NoDate

\* C12: an entry that carries only a publication timestamp matches the
\* target date D exactly when the (year, month, day) of the timestamp is D,
\* whatever its hour, minute and second: the lookup returns it only then,
\* and then returns it or an entry before it.
C12_TimestampDayDecides ==
  (LookedUp /\ Canonical(target_date)) =>
    \A i \in 1..Len(feed) :
      TimestampOnly(feed[i]) =>
        /\ found = i => SubSeq(feed[i].published_parsed, 1, 3) = YearMonthDay(target_date)
        /\ SubSeq(feed[i].published_parsed, 1, 3) = YearMonthDay(target_date) => found \in 1..i

\* an entry stamped 23:59:59 was returned for its day, after an entry
\* stamped on another day was passed over
C12_LateTimestampMatched ==
  /\ LookedUp
  /\ found = 2
  /\ TimestampOnly(feed[1])
  /\ TimestampOnly(feed[2])
  /\ SubSeq(feed[2].published_parsed, 4, 6) = <<23, 59, 59>>
  /\ target_date = "2026-01-14"

\* one of the dates of the entry, the link date or the day of the
\* timestamp, is the canonical date d
DateMatches(entry, d) ==
  \/ LinkDate(entry) = d
  \/ HasPublished(entry) /\ SubSeq(entry.published_parsed, 1, 3) = YearMonthDay(d)

\* the record the lookup handed back
LookupRecord == IF program = "pipeline" THEN content ELSE output.content

\* the extraction of entry i by the program that runs
ExtractionOf(i) ==
  IF program = "pipeline" THEN _extract_entry_content(feed[i]) ELSE extract_entry_content(feed[i])

LookupEnded == pc # "start" /\ returned.call = "" /\ output.kind # "date_range"

\* the dates the script draws its range from: the link date of an entry
\* that has a link, the day of the timestamp of an entry that has none
ScriptDates ==
  {LinkDate(feed[i]) : i \in {k \in 1..Len(feed) : LinkDate(feed[k]) # NoDate}}
  \cup {strftime(feed[i].published_parsed) :
          i \in {k \in 1..Len(feed) : ~HasAttr(feed[k], "link") /\ HasPublished(feed[k])}}

\* r is the earliest and the latest of the dates of S, or (none, none)
IsRangeOf(r, S) ==
  IF S = {} THEN r = [min |-> NoDate, max |-> NoDate]
  ELSE /\ r.min \in S
       /\ r.max \in S
       /\ \A d \in S : ~StrLess(d, r.min) /\ ~StrLess(r.max, d)

\* C14: when no entry matches a target date written YYYY-MM-DD, the empty
\* feed included, get_content_by_date returns None and raises nothing, and
\* the script reports not_found with the target date and the (min, max)
\* range of the dates of the feed, (none, none) for the empty feed.
C14_NotFoundIsReported ==
  (/\ LookupEnded
   /\ Canonical(target_date)
   /\ \A i \in 1..Len(feed) : ~DateMatches(feed[i], target_date)) =>
    /\ error = ""
    /\ pc # "failed"
    /\ found = 0
    /\ program = "pipeline" => content = NoContent
    /\ program = "cli" =>
         /\ output.kind = "not_found"
         /\ output.target_date = target_date
         /\ IsRangeOf(output.range, ScriptDates)
         /\ feed = <<>> => output.range = [min |-> NoDate, max |-> NoDate]

\* the script reported a missing date with a range of two different dates
C14_MissingDateReported ==
  /\ program = "cli"
  /\ output.kind = "not_found"
  /\ output.target_date = "2026-01-14"
  /\ output.range.min = "2026-01-12"
  /\ output.range.max = "2026-01-13"

\* C15: a target date that does not parse as YYYY-MM-DD ends the lookup
\* with a validation error in the pipeline and in the script alike; it is
\* never reported as not found, and no entry is returned for it.
C15_MalformedDateIsRejected ==
  (LookupEnded /\ ~strptime(target_date).ok) =>
    /\ error = "ValueError"
    /\ found = 0
    /\ output.kind # "not_found"

\* the dates the links of the feed carry
LinkDates == {LinkDate(feed[i]) : i \in {k \in 1..Len(feed) : LinkDate(feed[k]) # NoDate}}

\* C16: get_date_range returns the earliest and the latest of the dates
\* extracted from the links of the entries, timestamps contributing
\* nothing, with min <= max, and (None, None) when no link carries a date;
\* in RSSFetcher and in the script, whose main prints the range with
\* --date-range and in its not_found report.
C16_RangeFromLinksOnly ==
  /\ returned.call = "get_date_range" => IsRangeOf(returned.range, LinkDates)
  /\ (program = "cli" /\ output.kind \in {"date_range", "not_found"}) =>
       IsRangeOf(output.range, LinkDates)

\* the entry extract_entry_content was called with
ProbedEntry == feed[returned.index]

\* the raw text the stated order picks: the value of the first content
\* block, else the summary, else the title, else the empty string
StatedBody(entry) ==
  IF HasAttr(entry, "content") /\ Len(entry.content) > 0
  THEN (IF entry.content[1].has_value THEN entry.content[1].value ELSE "")
  ELSE IF HasAttr(entry, "summary") THEN entry.summary
  ELSE IF HasAttr(entry, "title") THEN entry.title
  ELSE ""

\* C17: the content of the extracted record is the content body of the
\* entry, else its summary, else its title, else the empty string, with
\* the three entities decoded; an entry that has a title and neither a
\* content body nor a summary gets its title as content.
C17_ContentBodySummaryTitle ==
  returned.call = "extract_entry_content" =>
    returned.record.content = DecodeEntities(StatedBody(ProbedEntry))

\* the entry has field a and it is not the empty string
HasText(entry, a) == HasAttr(entry, a) /\ Len(entry[a]) > 0

\* C18: whenever the description, the summary or the title of the entry is
\* a non-empty string, the content of the extracted record is non-empty,
\* also when the entry has a content block with an empty value or an empty
\* summary.
C18_ContentNeverEmpty ==
  (/\ returned.call = "extract_entry_content"
   /\ \E a \in {"description", "summary", "title"} : HasText(ProbedEntry, a)) =>
    Len(returned.record.content) > 0

\* field a of the entry, default when the entry lacks it
FieldOr(entry, a, default) == IF HasAttr(entry, a) THEN entry[a] ELSE default

CanonicalKeys == {"title", "link", "guid", "description", "content", "pubDate"}

RECURSIVE DecodedOnce(_)
DecodedOnce(s) ==
  IF \A i \in 1..Len(s) : SubSeq(s, i, i) # "&" THEN s
  ELSE LET i == Least({k \in 1..Len(s) : SubSeq(s, k, k) = "&"})
           rest == DropFirst(s, i - 1)
       IN SubSeq(s, 1, i - 1) \o
          (IF StartsWith(rest, "&lt;") THEN "<" \o DecodedOnce(DropFirst(rest, 4))
           ELSE IF StartsWith(rest, "&gt;") THEN ">" \o DecodedOnce(DropFirst(rest, 4))
           ELSE IF StartsWith(rest, "&amp;") THEN "&" \o DecodedOnce(DropFirst(rest, 5))
           ELSE "&" \o DecodedOnce(DropFirst(rest, 1)))

\* the raw text the extraction resolves for the content field: the value
\* of the first content block, else the summary, else the description in
\* RSSFetcher and the title in the script
ResolvedBody(entry) ==
  IF HasAttr(entry, "content") /\ Len(entry.content) > 0
  THEN (IF entry.content[1].has_value THEN entry.content[1].value ELSE "")
  ELSE FieldOr(entry, "summary",
               FieldOr(entry, IF program = "pipeline" THEN "description" ELSE "title", ""))

\* C20: extraction decodes &lt; &gt; and &amp; in the resolved content and
\* nowhere else: title, link, guid, description and pubDate of the record
\* are the raw values of the entry, entities included.
C20_OnlyContentIsDecoded ==
  returned.call = "extract_entry_content" =>
    /\ returned.record.content = DecodedOnce(ResolvedBody(ProbedEntry))
    /\ returned.record.title = FieldOr(ProbedEntry, "title", "")
    /\ returned.record.link = FieldOr(ProbedEntry, "link", "")
    /\ returned.record.pubDate =
         FieldOr(ProbedEntry, "published",
                 IF program = "pipeline" THEN FieldOr(ProbedEntry, "updated", "") ELSE "")
    /\ program = "pipeline" =>
         /\ returned.record.description = FieldOr(ProbedEntry, "description", "")
         /\ returned.record.guid =
              FieldOr(ProbedEntry, "id", FieldOr(ProbedEntry, "guid", returned.record.link))

\* an entry with entities in its title, link, id, description, published
\* and content block was extracted
C20_EntitiesInEveryField ==
  /\ returned.call = "extract_entry_content"
  /\ program = "pipeline"
  /\ returned.record.title = "A &amp; B"
  /\ returned.record.link = "https://news.smol.ai/issues/26-01-15-q/?a=1&amp;b=2"
  /\ returned.record.guid = "tag:&lt;1&gt;"
  /\ returned.record.description = "&lt;p&gt;"
  /\ returned.record.pubDate = "&gt;now"
  /\ returned.record.content = "x &lt; y <b>"

EmbeddedBody ==
  SubSeq(prompt, Len(PromptHead(content, target_date)) + 1, Len(prompt) - Len(PromptTail))

\* C22: the prompt embeds exactly the first 15000 characters of the content
\* body, the whole body when it is shorter, between the same head and tail,
\* so the embedded body never exceeds 15000 characters.
C22_BodyCutAtLimit ==
  pc = "posting" =>
    /\ Len(prompt) <= Len(PromptHead(content, target_date)) + PROMPT_BODY_LIMIT + Len(PromptTail)
    /\ Len(EmbeddedBody) <= PROMPT_BODY_LIMIT
    /\ EmbeddedBody = (IF Len(content.content) <= PROMPT_BODY_LIMIT
                         THEN content.content
                         ELSE SubSeq(content.content, 1, PROMPT_BODY_LIMIT))
    /\ SubSeq(prompt, 1, Len(PromptHead(content, target_date))) = PromptHead(content, target_date)
    /\ SubSeq(prompt, Len(prompt) - Len(PromptTail) + 1, Len(prompt)) = PromptTail

\* a prompt was built from a body twice as long as the limit
C22_LongBodyEmbedded ==
  /\ pc = "posting"
  /\ Len(content.content) = 2 * PROMPT_BODY_LIMIT
  /\ Len(EmbeddedBody) = PROMPT_BODY_LIMIT

(***************************************************************************)
(* Properties of update_index.                                             *)
(***************************************************************************)
\* the position of an entry in a list that holds it once
PositionIn(entries, e) == CHOOSE a \in DOMAIN entries : entries[a] = e

\* every entry of rest is an entry of entries, in the order it has there
KeepsOrderOf(entries, rest) ==
  /\ \A i \in DOMAIN rest : \E a \in DOMAIN entries : entries[a] = rest[i]
  /\ \A i \in 1..(Len(rest) - 1) :
       PositionIn(entries, rest[i]) < PositionIn(entries, rest[i + 1])

\* run r ends its update_index call in this step, and no other call wrote
\* the index since r read it
CallReturns(r) ==
  /\ runs[r].pc = "read"
  /\ runs'[r].pc = "done"
  /\ runs[r].existing = index

\* C23: after any sequence of update_index calls from a well-formed index
\* the persisted index has at most 30 entries and no two entries with one
\* date; the call that returns leaves the entry of its date first and the
\* remaining entries in the relative order they had before the call.
C23_RollingIndex ==
  /\ [](/\ Len(index) <= INDEX_KEEP
        /\ Cardinality({index[i].date : i \in DOMAIN index}) = Len(index))
  /\ [][\A r \in RunIds :
          CallReturns(r) =>
            /\ Len(index') >= 1
            /\ index'[1].date = runs[r].date
            /\ index'[1].url = PageName(runs[r].date)
            /\ KeepsOrderOf(index, Tail(index'))]_vars

\* two calls in a row on a full index, the second for a date the index
\* held in the middle: the index is full, the second date leads, the first
\* follows
C23_FullIndexRolled ==
  /\ \A r \in RunIds : runs[r].pc = "done"
  /\ Len(index) = INDEX_KEEP
  /\ index[1].date = JStr("2025-12-15")
  /\ index[2].date = JStr("2026-01-14")
  /\ index[INDEX_KEEP].date = JStr("2025-12-02")

\* the list holds an entry for the date
HasDate(entries, date) == \E i \in DOMAIN entries : entries[i].date = date

\* run q wrote the index last and run r read what q wrote
ReadAfterWriteOf(r, q) ==
  /\ r # q
  /\ runs[q].pc = "done"
  /\ index # <<>>
  /\ index[1].date = runs[q].date
  /\ runs[r].existing = index

\* C27: the index update is an unlocked read-modify-write.  When a run
\* reads what the other run wrote, both dates are in the index after its
\* write (when both runs read before either writes, the index can end
\* without the entry of one of them: C27_EntryLost).
C27_UnlockedReadModifyWrite ==
  [][\A r, q \in RunIds :
       (CallReturns(r) /\ ReadAfterWriteOf(r, q)) =>
         /\ HasDate(index', runs[r].date)
         /\ HasDate(index', runs[q].date)
         /\ index'[1].date = runs[r].date
         /\ runs[q].date # runs[r].date => index'[2].date = runs[q].date]_vars

\* both runs read the empty index before either wrote: both returned and
\* the index holds the entry of one of them only
C27_EntryLost ==
  /\ \A r \in RunIds : runs[r].pc = "done" /\ runs[r].existing = <<>>
  /\ \E r, q \in RunIds :
       /\ runs[r].date = JStr("2026-01-14")
       /\ runs[q].date = JStr("2026-01-13")
       /\ index[1].date = JStr("2026-01-14")
       /\ ~HasDate(index, JStr("2026-01-13"))
  /\ Len(index) = 1

(***************************************************************************)
(* Properties of the notifier.                                             *)
(***************************************************************************)
\* C24: send_success, send_empty and send_error never raise; disabled or
\* not fully configured they return False and no SMTP connection is opened;
\* when connect, starttls, login or send_message fails they return False;
\* and no step of the notifier changes the result, the page or the index
\* of the pipeline.
C24_NotifierNeverPropagates ==
  /\ [](/\ mail.pc # "raised"
        /\ (mail.pc = "returned" /\ (mail.disabled \/ "" \in {mail.host, mail.user,
                                                              mail.password, mail.to_email}))
             => (mail.ret = "False" /\ mail.connections = 0)
        /\ (mail.pc = "returned" /\ mail.failed # "") => mail.ret = "False"
        /\ mail.pc = "returned" => mail.ret \in {"True", "False"}
        /\ mail.ret = "True" => (mail.failed = "" /\ mail.connections = 1))
  /\ [][result' = result /\ page' = page /\ index' = index /\ pc' = pc /\ error' = error]_vars

\* send_error was called with a full configuration, the connection was
\* opened and the server refused the login: the call returned False
C24_LoginFailureReturnedFalse ==
  /\ mail.call = "send_error"
  /\ mail.pc = "returned"
  /\ mail.failed = "login"
  /\ mail.exc = "SMTPAuthenticationError"
  /\ mail.connections = 1
  /\ mail.ret = "False"

(***************************************************************************)
(* Properties of a run's failures.                                         *)
(***************************************************************************)
\* the failures that may end a run: the feed could not be fetched, the
\* target date is malformed
AllowedTerminations == {"RequestException", "ValueError"}

\* C25: a run is ended only by a feed-fetch transport failure or by a
\* malformed target date; every other failure of resolution or analysis,
\* a configuration failure of the analysis service included, is absorbed
\* into a default or fallback value and the run goes on.
C25_OnlyFetchOrDateEndsRun ==
  pc = "failed" => error \in AllowedTerminations

(***************************************************************************)
(* Properties of the response-text extraction of analyze.                  *)
(***************************************************************************)
\* the value of a subscript path, nothing when any subscript of it fails
PathOrNothing(present, path) == IF present /\ path.exc = "" THEN path.val ELSE JNull

\* the first non-empty of: choices[0].message.content, content[0].text,
\* the result, text and data keys; nothing when none gives a value
FirstNonEmpty(rd) ==
  LET a1 == PathOrNothing(PyIn("choices", rd), OpenAIPath(rd))
      a2 == PathOrNothing(PyIn("content", rd), ClaudePath(rd))
      a3 == IF rd.t # "obj" THEN JNull
            ELSE PyOr(PyOr(DictGet(rd.v, "result"), DictGet(rd.v, "text")), DictGet(rd.v, "data"))
  IN PyOr(a1, PyOr(a2, a3))

\* the model text the ordered, independent attempts give: the first
\* non-empty value as a string, else the stringified whole response
StatedText(rd) ==
  IF Truthy(FirstNonEmpty(rd)) THEN PyStr(FirstNonEmpty(rd)) ELSE PyStr(rd)

\* the decoded body of the response analyze received
ResponseData == Loads(Body(sent))

\* C26: analyze extracts the model text by ordered, independent attempts
\* and takes the first non-empty one; an attempt that fails on an
\* unexpected shape does not keep the later attempts from being tried, so
\* for every decoded response _parse_result is called with that text.
C26_AttemptsAreIndependent ==
  (/\ pc = "analyzed"
   /\ requests = 1
   /\ sent # NoReply
   /\ sent.status = 200
   /\ ResponseData.ok)
  => (parse.called /\ parse.text = StatedText(ResponseData.val))

(***************************************************************************)
(* Properties of analyze on empty content.                                 *)
(***************************************************************************)
\* C28: when the content record is missing or its content field is empty,
\* analyze returns a result with status "empty", date = target_date, the
\* default theme, empty summary, keywords and categories and a reason
\* string; it builds no prompt and sends no request.
C28_EmptyContentShortCircuits ==
  (content.none \/ content.content = "") =>
    /\ requests = 0
    /\ prompt = ""
    /\ sent = NoReply
    /\ pc \in {"construct", "failed", "analyze", "analyzed"}
    /\ pc = "analyzed" =>
         /\ result.t = "obj"
         /\ DOMAIN result.v = {"status", "date", "theme", "summary", "keywords",
                               "categories", "reason"}
         /\ result.v["status"] = JStr("empty")
         /\ result.v["date"] = JStr(target_date)
         /\ result.v["theme"] = JStr(DEFAULT_THEME)
         /\ result.v["summary"] = JArr(<<>>)
         /\ result.v["keywords"] = JArr(<<>>)
         /\ result.v["categories"] = JArr(<<>>)
         /\ result.v["reason"].t = "str"
         /\ result.v["reason"].v # ""

\* analyze returned for a record with a title, a link and an empty content
\* field
C28_EmptyBodyReturned ==
  /\ pc = "analyzed"
  /\ ~content.none
  /\ content.title = "AI News"
  /\ content.content = ""
  /\ result.v["status"] = JStr("empty")
  /\ requests = 0

(***************************************************************************)
(* Properties of the entity decoding.                                      *)
(***************************************************************************)
\* the positions of s at which e starts
EntityHits(s, e) == {i \in 1..(Len(s) - Len(e) + 1) : SubSeq(s, i, i + Len(e) - 1) = e}

\* C29: entity decoding of the content is single-pass: each &lt;, &gt; and
\* &amp; of the raw text gives one character and nothing is decoded twice,
\* so a doubly-escaped &amp;lt; stays as &lt;, and a text with none of the
\* three entities is returned unchanged.
C29_DecodedExactlyOneLevel ==
  returned.call = "extract_entry_content" =>
    LET raw == ResolvedBody(ProbedEntry)
        out == returned.record.content
        lt == Cardinality(EntityHits(raw, "&lt;"))
        gt == Cardinality(EntityHits(raw, "&gt;"))
        amp == Cardinality(EntityHits(raw, "&amp;"))
    IN /\ Len(out) = Len(raw) - 3 * (lt + gt) - 4 * amp
       /\ Cardinality(EntityHits(out, "&lt;")) >= Cardinality(EntityHits(raw, "&amp;lt;"))
       /\ Cardinality(EntityHits(out, "&gt;")) >= Cardinality(EntityHits(raw, "&amp;gt;"))
       /\ Cardinality(EntityHits(out, "<")) = Cardinality(EntityHits(raw, "<")) + lt
       /\ lt + gt + amp = 0 => out = raw

\* the script extracted an entry whose content block holds a doubly-escaped
\* &amp;lt; next to a singly-escaped tag
C29_DoublyEscapedKeptOneLevel ==
  /\ returned.call = "extract_entry_content"
  /\ program = "cli"
  /\ ResolvedBody(ProbedEntry) = "x &amp;lt; y &lt;b&gt;"
  /\ returned.record.content = "x &lt; y <b>"

(***************************************************************************)
(* The two implementations of date resolution compared.                    *)
(***************************************************************************)
\* the entry the other implementation selects for the same feed and target
\* date, 0 when it reports not found
OtherSelection ==
  IF program = "pipeline" THEN fetch_news_get_content_by_date(feed, target_date)
  ELSE get_content_by_date(target_date, feed).found

\* C30: RSSFetcher.get_content_by_date and fetch_news.get_content_by_date
\* select the same entry, or both report not found, for every feed and
\* every target date that strptime accepts as %Y-%m-%d, the targets
\* without zero padding included.
C30_SameSelection ==
  (LookedUp /\ strptime(target_date).ok) => found = OtherSelection

====
